---- MODULE Spec2Model ----
(***************************************************************************)
(* A model of the e-mail phishing analyser: the score aggregator           *)
(* (src/src/aggregator.py) and the rule engine (src/src/rules_engine.py)   *)
(* with the threat-intelligence lookups it calls                           *)
(* (src/src/threat_intelligence.py), the ingestion of the feeds            *)
(* (src/scripts/update_threat_intel.py), the classifier wrapper            *)
(* (src/src/ml_classifier.py), the detection of IP addresses in URLs       *)
(* (src/src/url_domain_analyzer.py), the extraction of domains, IPs and    *)
(* the body from a message (src/src/email_parser.py) and the feature       *)
(* extractor's artefact (src/src/feature_extractor.py).                    *)
(*                                                                         *)
(* Python floats are modelled as exact rationals n/d in lowest terms, plus *)
(* the non-finite values nan, +inf and -inf; binary rounding is not        *)
(* modelled.  A Python value that is not a float (None or a missing key, a *)
(* non-numeric string, a list) keeps its kind, so that float(x) can fail   *)
(* on it as it does in the code.                                           *)
(***************************************************************************)
EXTENDS Integers, Sequences, FiniteSets, TLC

VARIABLES
    aggIn,      \* the arguments of the aggregate_and_decide call
    callerCfg,  \* the caller's AggregationConfig object
    aggOut,     \* what the last aggregate_and_decide call returned
    aggCalls,   \* how many calls were made
    ruleIn,     \* the arguments of the evaluate_all_rules call
    ruleOut,    \* what the last evaluate_all_rules call returned
    tiStore,    \* the ThreatIntelligence object: tables and cache
    levelIn,    \* the risk score classify_risk_level is called with
    levelOut,   \* the risk level it returned
    tiOp,       \* the last operation on the store, with the store before it
    tiOut,      \* what that operation returned
    tiHist,     \* the operations so far: how many, which feeds were imported
    mlModel,    \* the MLClassifier object: its model and classes_
    mlOp,       \* the last operation on the classifier
    mlOut,      \* what that operation returned or raised
    mlHist,     \* the operations on the classifier so far
    urlIn,      \* the URL given to detect_ip_in_url
    urlOut,     \* what detect_ip_in_url returned
    mailIn,     \* the message given to extract_domains
    mailOut,    \* the domains and IPs extract_domains returned
    feState,    \* the FeatureExtractor objects and the artefact on disk
    feOp,       \* the last operation on a FeatureExtractor
    feOut,      \* what that operation returned or raised
    bodyIn,     \* the parsed message given to extract_body
    bodyOut,    \* the text and html extract_body returned
    ingStore,   \* the store a feed is ingested into, as its connection sees it
    ingDisk,    \* the tables of that store as committed to the database file
    ing,        \* the ingestion: where it is, the rows left, its batches
    look,       \* the lookup that runs beside the ingestion
    ingHist     \* what the ingestions and lookups on that store did so far

vars ==
    <<aggIn, callerCfg, aggOut, aggCalls, ruleIn, ruleOut, tiStore, levelIn,
      levelOut, tiOp, tiOut, tiHist, mlModel, mlOp, mlOut, mlHist, urlIn,
      urlOut, mailIn, mailOut, feState, feOp, feOut, bodyIn, bodyOut, ingStore,
      ingDisk, ing, look, ingHist>>

aggVars == <<aggIn, callerCfg, aggOut, aggCalls>>
ruleVars == <<ruleIn, ruleOut, tiStore>>
levelVars == <<levelIn, levelOut>>
tiVars == <<tiOp, tiOut, tiHist>>
mlVars == <<mlModel, mlOp, mlOut, mlHist>>
urlVars == <<urlIn, urlOut>>
mailVars == <<mailIn, mailOut>>
feVars == <<feState, feOp, feOut>>
bodyVars == <<bodyIn, bodyOut>>
ingVars == <<ingStore, ingDisk, ing, look, ingHist>>

(***************************************************************************)
(* Bounds of the model.                                                    *)
(***************************************************************************)
\* how many times aggregate_and_decide is called on one configuration object
MaxCalls == 2

(***************************************************************************)
(* Python values.                                                          *)
(***************************************************************************)
Abs(x) == IF x < 0 THEN -x ELSE x

RECURSIVE GCD(_, _)
GCD(a, b) == IF b = 0 THEN a ELSE GCD(b, a % b)

\* the float n/d, in lowest terms with a positive denominator
Num(n, d) ==
    LET s == IF d < 0 THEN -1 ELSE 1
        g == GCD(Abs(n), Abs(d))
    IN  [k |-> "num", n |-> (s * n) \div g, d |-> (s * d) \div g]

NaN == [k |-> "nan", n |-> 0, d |-> 1]
PInf == [k |-> "inf", n |-> 1, d |-> 1]
NInf == [k |-> "ninf", n |-> -1, d |-> 1]
\* None, or a key the dictionary does not hold
NoneV == [k |-> "none", n |-> 0, d |-> 1]
\* a string that is not the text of a number
StrV == [k |-> "str", n |-> 0, d |-> 1]
\* a value that is neither a number nor a string (a list, a dict)
ObjV == [k |-> "obj", n |-> 0, d |-> 1]

IsFloat(x) == x.k \in {"num", "nan", "inf", "ninf"}

\* Python's float(x): [ok |-> FALSE] stands for the TypeError / ValueError
PyFloat(x) ==
    IF IsFloat(x) THEN [ok |-> TRUE, v |-> x] ELSE [ok |-> FALSE, v |-> NaN]

\* x < y on floats: every comparison with nan is false
FLt(x, y) ==
    CASE x.k = "nan" \/ y.k = "nan" -> FALSE
      [] x.k = "ninf" -> y.k # "ninf"
      [] x.k = "inf" -> FALSE
      [] y.k = "inf" -> TRUE
      [] y.k = "ninf" -> FALSE
      [] OTHER -> x.n * y.d < y.n * x.d

\* x >= y on floats
FGe(x, y) ==
    /\ x.k # "nan"
    /\ y.k # "nan"
    /\ ~FLt(x, y)

FSign(x) ==
    CASE x.k = "inf" -> 1
      [] x.k = "ninf" -> -1
      [] OTHER -> IF x.n > 0 THEN 1 ELSE IF x.n < 0 THEN -1 ELSE 0

FMul(x, y) ==
    CASE x.k = "nan" \/ y.k = "nan" -> NaN
      [] x.k = "num" /\ y.k = "num" -> Num(x.n * y.n, x.d * y.d)
      [] OTHER -> IF FSign(x) * FSign(y) = 0 THEN NaN
                  ELSE IF FSign(x) * FSign(y) > 0 THEN PInf ELSE NInf

FAdd(x, y) ==
    CASE x.k = "nan" \/ y.k = "nan" -> NaN
      [] x.k = "num" /\ y.k = "num" -> Num(x.n * y.d + y.n * x.d, x.d * y.d)
      [] x.k = "num" -> y
      [] y.k = "num" -> x
      [] OTHER -> IF x.k = y.k THEN x ELSE NaN

\* x / y for a finite y # 0
FDiv(x, y) ==
    CASE x.k = "nan" -> NaN
      [] x.k = "num" -> Num(x.n * y.d, x.d * y.n)
      [] OTHER -> IF y.n > 0 THEN x ELSE IF x.k = "inf" THEN NInf ELSE PInf

Zero == Num(0, 1)
One == Num(1, 1)

(***************************************************************************)
(* aggregator.py                                                           *)
(***************************************************************************)
\* AggregationConfig(): w_rules 0.3, w_ml 0.7, threshold 0.5
AggregationConfig ==
    [w_rules |-> Num(3, 10), w_ml |-> Num(7, 10), threshold |-> Num(1, 2)]

clamp01(x) ==
    IF FLt(x, Zero) THEN Zero
    ELSE IF FLt(One, x) THEN One
    ELSE x

normalize_risk_score(risk_score) ==
    LET rs == PyFloat(risk_score)
    IN  IF ~rs.ok THEN Zero ELSE clamp01(FDiv(rs.v, Num(100, 1)))

(***************************************************************************)
(* The weights file: weights_path is not given ("nopath"), names no file   *)
(* ("missing"), names a file that is not JSON ("notjson"), a JSON document *)
(* that is not an object ("notobject"), or a JSON object ("object") whose  *)
(* keys w_rules, w_ml and threshold are each absent (NoneV), a number, or  *)
(* a value float() rejects (StrV).                                         *)
(***************************************************************************)
NoFile(kind) ==
    [kind |-> kind, w_rules |-> NoneV, w_ml |-> NoneV, threshold |-> NoneV]

\* float(data.get(key, current)): the key's value, or the current one
FileField(v, current) == IF v.k = "none" THEN PyFloat(current) ELSE PyFloat(v)

\* _load_config: the configuration object after the call.  cfg is the
\* caller's object when one was passed, so the assignments are made to it.
load_config(file, cfg) ==
    IF file.kind \in {"nopath", "missing"} THEN cfg
    ELSE IF file.kind \in {"notjson", "notobject"} THEN cfg
    ELSE
      LET r == FileField(file.w_rules, cfg.w_rules)
          c1 == IF r.ok THEN [cfg EXCEPT !.w_rules = r.v] ELSE cfg
          m == FileField(file.w_ml, c1.w_ml)
          c2 == IF m.ok THEN [c1 EXCEPT !.w_ml = m.v] ELSE c1
          t == FileField(file.threshold, c2.threshold)
          c3 == IF t.ok THEN [c2 EXCEPT !.threshold = t.v] ELSE c2
          s == FAdd(c3.w_rules, c3.w_ml)
      IN  IF ~r.ok THEN cfg
          ELSE IF ~m.ok THEN c1
          ELSE IF ~t.ok THEN c2
          ELSE IF FLt(Zero, s)
               THEN [c3 EXCEPT !.w_rules = FDiv(c3.w_rules, s),
                               !.w_ml = FDiv(c3.w_ml, s)]
               ELSE c3

\* _extract_ml_confidence: phishing_probability, else confidence, else 0.0
extract_ml_confidence(ml_result) ==
    LET ml_conf == IF ml_result.phishing_probability.k = "none"
                   THEN (IF ml_result.has_confidence THEN ml_result.confidence
                         ELSE Zero)
                   ELSE ml_result.phishing_probability
        f == PyFloat(ml_conf)
    IN  clamp01(IF f.ok THEN f.v ELSE Zero)

\* line 105: float(risk_score) if isinstance(risk_score, (int, float, str))
\* else 0.0; float() of a non-numeric string raises ValueError
ReportedRiskScore(risk_score) ==
    IF IsFloat(risk_score) THEN [ok |-> TRUE, v |-> risk_score]
    ELSE IF risk_score.k = "str" THEN [ok |-> FALSE, v |-> NaN]
    ELSE [ok |-> TRUE, v |-> Zero]

\* rules_result.get("risk_score", 0)
RiskScoreOf(rules_result) ==
    IF rules_result.has_risk_score THEN rules_result.risk_score ELSE Zero

aggregate_scores(ml_result, rules_result, config) ==
    LET ml_conf == extract_ml_confidence(ml_result)
        risk_score == RiskScoreOf(rules_result)
        risk_norm == normalize_risk_score(risk_score)
        final_score == clamp01(FAdd(FMul(config.w_ml, ml_conf),
                                    FMul(config.w_rules, risk_norm)))
        reported == ReportedRiskScore(risk_score)
    IN  [raised |-> ~reported.ok,
         ml_confidence |-> ml_conf,
         risk_score |-> reported.v,
         risk_norm |-> risk_norm,
         w_ml |-> config.w_ml,
         w_rules |-> config.w_rules,
         threshold |-> config.threshold,
         final_score |-> final_score]

decide_strict(final_score, threshold) ==
    IF FLt(threshold, final_score) THEN 1 ELSE 0

decide(final_score, threshold) ==
    IF FGe(final_score, threshold) THEN 1 ELSE 0

\* the configuration object _load_config works on: the caller's, or a fresh
\* AggregationConfig() when the caller passed none
ConfigUsed(in, cfg) == IF in.use_config THEN cfg ELSE AggregationConfig

\* what aggregate_and_decide returns, or that it raised
AggregateResult(in, cfg) ==
    LET loaded == load_config(in.file, ConfigUsed(in, cfg))
        aggregation == aggregate_scores(in.ml_result, in.rules_result, loaded)
    IN  IF aggregation.raised
        THEN [outcome |-> "raised", final_verdict |-> 0,
              final_score |-> aggregation.final_score,
              aggregation |-> aggregation, called_with |-> cfg]
        ELSE [outcome |-> "returned",
              final_verdict |-> decide(aggregation.final_score,
                                       aggregation.threshold),
              final_score |-> aggregation.final_score,
              aggregation |-> aggregation, called_with |-> cfg]

NoResult ==
    [outcome |-> "none", final_verdict |-> 0, final_score |-> Zero,
     called_with |-> AggregationConfig,
     aggregation |-> aggregate_scores(
         [phishing_probability |-> NoneV, has_confidence |-> FALSE,
          confidence |-> NoneV],
         [has_risk_score |-> FALSE, risk_score |-> NoneV],
         AggregationConfig)]

(***************************************************************************)
(* The inputs of the aggregator.                                           *)
(***************************************************************************)
MLProbabilities ==
    {Num(49, 100), Num(1, 2), Zero, One, Num(3, 2), Num(-1, 2), NaN, PInf,
     StrV}

MLResults ==
    {[phishing_probability |-> p, has_confidence |-> FALSE, confidence |-> NoneV] :
        p \in MLProbabilities}
    \cup {[phishing_probability |-> NoneV, has_confidence |-> c,
           confidence |-> Num(4, 5)] : c \in BOOLEAN}

RiskScores ==
    {Num(0, 1), Num(50, 1), Num(100, 1), Num(150, 1), Num(-10, 1), NaN, StrV,
     ObjV}

RulesResults ==
    {[has_risk_score |-> TRUE, risk_score |-> r] : r \in RiskScores}
    \cup {[has_risk_score |-> FALSE, risk_score |-> NoneV]}

FileWeights == {NoneV, StrV, Num(2, 1), Zero}
FileThresholds == {NoneV, StrV, Num(1, 10)}

WeightFiles ==
    {NoFile(kd) : kd \in {"nopath", "missing", "notjson", "notobject"}}
    \cup {[kind |-> "object", w_rules |-> wr, w_ml |-> wm, threshold |-> t] :
            wr \in FileWeights, wm \in FileWeights, t \in FileThresholds}

\* the configuration objects a caller passes
CallerConfigs ==
    {AggregationConfig,
     [w_rules |-> Num(2, 1), w_ml |-> Num(2, 1), threshold |-> Num(1, 2)],
     [w_rules |-> Num(-3, 10), w_ml |-> Num(7, 10), threshold |-> Num(1, 2)]}

AggInputs ==
    [ml_result : MLResults, rules_result : RulesResults, file : WeightFiles,
     use_config : BOOLEAN]

(***************************************************************************)
(* threat_intelligence.py: the store's tables, its LRU cache (an           *)
(* OrderedDict, oldest entry first) and the single-indicator lookups.      *)
(***************************************************************************)
\* the strings the model uses for hosts, and what tldextract and lower()
\* make of them: the registrable domain and public suffix, lowercased
DomainStrings == {"", "evil.tk", "www.evil.tk", "EVIL.tk", "bank.ru"}
IpStrings == {"", "6.6.6.6", "8.8.8.8"}

normalize_domain_for_ti(domain) ==
    CASE domain = "" -> "None"
      [] domain \in {"evil.tk", "www.evil.tk", "EVIL.tk"} -> "evil.tk"
      [] OTHER -> domain

Clean == [found |-> FALSE, threat_type |-> "clean", source |-> "None"]

CacheKeys(c) == {c[i].key : i \in 1..Len(c)}

CacheValue(c, key) == (CHOOSE i \in 1..Len(c) : c[i].key = key)

\* OrderedDict.move_to_end(key)
MoveToEnd(c, key) ==
    LET i == CacheValue(c, key)
    IN  SubSeq(c, 1, i - 1) \o SubSeq(c, i + 1, Len(c)) \o <<c[i]>>

\* an insertion that drops the newest entry of a full cache
CacheInsertEvictNewest(c, key, reputation, max_cache_size) ==
    LET kept == IF Len(c) >= max_cache_size
                THEN SubSeq(c, 1, Len(c) - 1) ELSE c
    IN  Append(kept, [key |-> key, rep |-> reputation])

\* lines 110-113: popitem(last=False) when the cache is full, then insert
CacheInsert(c, key, reputation, max_cache_size) ==
    LET kept == IF Len(c) >= max_cache_size THEN Tail(c) ELSE c
    IN  Append(kept, [key |-> key, rep |-> reputation])

\* SELECT threat_type, source FROM <table> WHERE <key> = ?
Lookup(table, key) ==
    IF \E row \in table : row.key = key
    THEN LET row == CHOOSE row \in table : row.key = key
         IN  [found |-> TRUE, threat_type |-> row.threat_type,
              source |-> row.source]
    ELSE Clean

\* a lookup that lets the store's error out to the caller
OnStoreErrorRaise(store) ==
    [rep |-> Clean, cache |-> store.cache, raised |-> TRUE]

\* except sqlite3.Error: the not-found reputation is returned and nothing
\* is cached
OnStoreError(store) ==
    [rep |-> Clean, cache |-> store.cache, raised |-> FALSE]

\* check_domain_reputation: the reputation returned, the cache afterwards
\* and whether the call raised.  io says whether the SELECT succeeds ("ok")
\* or fails with sqlite3.Error ("error"); on a closed store conn is None and
\* conn.cursor() raises AttributeError, which the except does not catch
check_domain_reputation(store, domain, io) ==
    IF domain = ""
    THEN [rep |-> Clean, cache |-> store.cache, raised |-> FALSE]
    ELSE
      LET cache_key == <<"domain", normalize_domain_for_ti(domain)>>
          reputation == Lookup(store.malicious_domains, cache_key[2])
      IN  IF cache_key \in CacheKeys(store.cache)
          THEN [rep |-> store.cache[CacheValue(store.cache, cache_key)].rep,
                cache |-> MoveToEnd(store.cache, cache_key),
                raised |-> FALSE]
          ELSE IF store.conn = "closed"
          THEN [rep |-> Clean, cache |-> store.cache, raised |-> TRUE]
          ELSE IF io = "error"
          THEN OnStoreError(store)
          ELSE [rep |-> reputation,
                cache |-> CacheInsert(store.cache, cache_key, reputation,
                                      store.max_cache_size),
                raised |-> FALSE]

\* check_ip_reputation: the same for an IP, which is looked up as it is
check_ip_reputation(store, ip_address, io) ==
    IF ip_address = ""
    THEN [rep |-> Clean, cache |-> store.cache, raised |-> FALSE]
    ELSE
      LET cache_key == <<"ip", ip_address>>
          reputation == Lookup(store.malicious_ips, ip_address)
      IN  IF cache_key \in CacheKeys(store.cache)
          THEN [rep |-> store.cache[CacheValue(store.cache, cache_key)].rep,
                cache |-> MoveToEnd(store.cache, cache_key),
                raised |-> FALSE]
          ELSE IF store.conn = "closed"
          THEN [rep |-> Clean, cache |-> store.cache, raised |-> TRUE]
          ELSE IF io = "error"
          THEN OnStoreError(store)
          ELSE [rep |-> reputation,
                cache |-> CacheInsert(store.cache, cache_key, reputation,
                                      store.max_cache_size),
                raised |-> FALSE]

\* a source compared as it is written
SourceAsWritten(source) == source

\* source.lower() of the sources the feeds write
SourceLower(source) ==
    CASE source = "URLhaus" -> "urlhaus"
      [] source = "OpenPhish" -> "openphish"
      [] OTHER -> source

\* lines 180-185: the (domain, normalised) pairs of the non-empty domains
RECURSIVE NormalizedPairs(_)
NormalizedPairs(domains) ==
    IF domains = <<>> THEN <<>>
    ELSE LET domain == Head(domains)
         IN  (IF domain = "" THEN <<>>
              ELSE <<[orig |-> domain,
                      norm |-> normalize_domain_for_ti(domain)]>>)
             \o NormalizedPairs(Tail(domains))

\* lines 217-241: the loop over the pairs, which collects the hits and their
\* sources and caches every hit
RECURSIVE BatchLoop(_, _, _)
BatchLoop(store, normalized, acc) ==
    IF normalized = <<>> THEN acc
    ELSE
      LET pair == Head(normalized)
          info == Lookup(store.malicious_domains, pair.norm)
          cache_key == <<"domain", pair.norm>>
          source_lower == SourceLower(info.source)
          next ==
            IF ~info.found THEN acc
            ELSE [malicious_domains |->
                      IF \E i \in 1..Len(acc.malicious_domains) :
                             acc.malicious_domains[i] = pair.orig
                      THEN acc.malicious_domains
                      ELSE Append(acc.malicious_domains, pair.orig),
                  domain_in_urlhaus |->
                      acc.domain_in_urlhaus \/ source_lower = "urlhaus",
                  domain_in_openphish |->
                      acc.domain_in_openphish \/ source_lower = "openphish",
                  cache |->
                      IF cache_key \notin CacheKeys(acc.cache)
                      THEN CacheInsert(acc.cache, cache_key, info,
                                       store.max_cache_size)
                      ELSE MoveToEnd(acc.cache, cache_key)]
      IN  BatchLoop(store, Tail(normalized), next)

\* check_domains_batch: one SELECT ... IN (...) for all the domains; the
\* cache is written but never read
check_domains_batch(store, domains, io) ==
    LET normalized == NormalizedPairs(domains)
        empty == [malicious_domains |-> <<>>, domain_in_urlhaus |-> FALSE,
                  domain_in_openphish |-> FALSE, cache |-> store.cache]
        r == IF normalized = <<>> \/ store.conn = "closed" \/ io = "error"
             THEN empty
             ELSE BatchLoop(store, normalized, empty)
    IN  [malicious_domains |-> r.malicious_domains,
         domain_in_urlhaus |-> r.domain_in_urlhaus,
         domain_in_openphish |-> r.domain_in_openphish,
         cache |-> r.cache,
         raised |-> normalized # <<>> /\ store.conn = "closed"]

\* lines 278-285: the loop over the IPs, one check_ip_reputation each; ios
\* says for each of them whether its SELECT succeeds
RECURSIVE IpLoop(_, _, _, _)
IpLoop(store, ips, ios, acc) ==
    IF ips = <<>> \/ acc.raised THEN acc
    ELSE
      LET ip == Head(ips)
          r == check_ip_reputation([store EXCEPT !.cache = acc.cache], ip,
                                   Head(ios))
          next ==
            IF ip = "" THEN acc
            ELSE [malicious_ips |->
                      IF r.rep.found
                         /\ ~\E i \in 1..Len(acc.malicious_ips) :
                                acc.malicious_ips[i] = ip
                      THEN Append(acc.malicious_ips, ip)
                      ELSE acc.malicious_ips,
                  ip_in_blacklist |-> acc.ip_in_blacklist \/ r.rep.found,
                  cache |-> r.cache,
                  raised |-> r.raised]
      IN  IpLoop(store, Tail(ips), Tail(ios), next)

\* check_reputation: the batch lookup of the domains, then the IPs one by one
check_reputation(store, domains, ips, io, ios) ==
    LET domains_result == check_domains_batch(store, domains, io)
        start == [malicious_ips |-> <<>>, ip_in_blacklist |-> FALSE,
                  cache |-> domains_result.cache, raised |-> FALSE]
        r == IF domains_result.raised THEN [start EXCEPT !.raised = TRUE]
             ELSE IpLoop(store, ips, ios, start)
    IN  [malicious_domains |-> domains_result.malicious_domains,
         malicious_ips |-> r.malicious_ips,
         domain_in_urlhaus |-> domains_result.domain_in_urlhaus,
         domain_in_openphish |-> domains_result.domain_in_openphish,
         ip_in_blacklist |-> r.ip_in_blacklist,
         cache |-> r.cache,
         raised |-> r.raised]

\* cache_results: self.cache[key] = result, with no eviction; an existing
\* key keeps its place in the OrderedDict
cache_results(c, key, result) ==
    IF key \in CacheKeys(c)
    THEN [c EXCEPT ![CacheValue(c, key)] = [key |-> key, rep |-> result]]
    ELSE Append(c, [key |-> key, rep |-> result])

\* clear_cache: self.cache.clear()
clear_cache(c) == <<>>

\* close: the connection is closed and conn becomes None
close(store) == [store EXCEPT !.conn = "closed"]

(***************************************************************************)
(* scripts/update_threat_intel.py: the ingestion of the two feeds.  A feed *)
(* has fewer rows than BATCH_SIZE, so that all its rows are written by the *)
(* final executemany of each table, in the order of the feed.              *)
(***************************************************************************)
\* the URLs of the feeds, and what urlparse, the port strip and IP_PATTERN
\* make of them: the host, and whether it starts like an IPv4 address
extract_hostname_from_url(url) ==
    CASE url = "http://www.evil.tk/a" -> [hostname |-> "www.evil.tk",
                                          is_ip |-> FALSE]
      [] url = "http://EVIL.tk:8080/b" -> [hostname |-> "EVIL.tk",
                                           is_ip |-> FALSE]
      [] url = "http://bank.ru/login" -> [hostname |-> "bank.ru",
                                          is_ip |-> FALSE]
      [] url = "http://6.6.6.6/x" -> [hostname |-> "6.6.6.6", is_ip |-> TRUE]
      [] OTHER -> [hostname |-> "", is_ip |-> FALSE]

\* normalize_domain: the registrable domain and suffix, lowercased
normalize_domain(hostname) ==
    CASE hostname \in {"evil.tk", "www.evil.tk", "EVIL.tk"} -> "evil.tk"
      [] OTHER -> hostname

\* _process_url_for_urlhaus: the key and the table it goes to, or "skip"
process_url_for_urlhaus(url) ==
    LET h == extract_hostname_from_url(url)
    IN  IF h.hostname = "" THEN [data_type |-> "skip", data |-> ""]
        ELSE IF h.is_ip THEN [data_type |-> "ip", data |-> h.hostname]
        ELSE [data_type |-> "domain", data |-> normalize_domain(h.hostname)]

\* _process_url_for_openphish: IP hosts are skipped
process_url_for_openphish(url) ==
    LET h == extract_hostname_from_url(url)
    IN  IF h.hostname = "" \/ h.is_ip THEN [data_type |-> "skip", data |-> ""]
        ELSE [data_type |-> "domain", data |-> normalize_domain(h.hostname)]

\* INSERT with no conflict clause on a table that has no UNIQUE key
InsertAlways(table, row) == table \cup {row}

\* INSERT OR IGNORE on a table whose key column is UNIQUE
InsertOrIgnore(table, row) ==
    IF \E r \in table : r.key = row.key THEN table ELSE table \cup {row}

\* the rows of a URLhaus feed, written to the two tables
RECURSIVE ImportUrlhausRows(_, _, _)
ImportUrlhausRows(store, rows, date_added) ==
    IF rows = <<>> THEN store
    ELSE
      LET row == Head(rows)
          threat_type == IF row.threat = "" THEN "malicious" ELSE row.threat
          result == process_url_for_urlhaus(row.url)
          new == [key |-> result.data, threat_type |-> threat_type,
                  date_added |-> date_added, source |-> "URLhaus"]
          next ==
            CASE row.url = "" \/ result.data_type = "skip" -> store
              [] result.data_type = "ip" ->
                   [store EXCEPT !.malicious_ips = InsertOrIgnore(@, new)]
              [] OTHER ->
                   [store EXCEPT !.malicious_domains = InsertOrIgnore(@, new)]
      IN  ImportUrlhausRows(next, Tail(rows), date_added)

\* an import that leaves the cache as it is
update_from_urlhaus_keep_cache(store, rows, date_added) ==
    IF store.conn = "closed" THEN [store |-> store, raised |-> TRUE]
    ELSE [store |-> ImportUrlhausRows(store, rows, date_added),
          raised |-> FALSE]

\* update_from_urlhaus: on a closed store conn.cursor() raises; a feed with
\* no data line returns before anything is written or cleared; otherwise the
\* rows are inserted, committed and the cache is cleared
update_from_urlhaus(store, rows, date_added) ==
    IF store.conn = "closed" THEN [store |-> store, raised |-> TRUE]
    ELSE IF rows = <<>> THEN [store |-> store, raised |-> FALSE]
    ELSE [store |-> [ImportUrlhausRows(store, rows, date_added)
                        EXCEPT !.cache = clear_cache(@)],
          raised |-> FALSE]

\* the lines of an OpenPhish feed, written to malicious_domains
RECURSIVE ImportOpenphishLines(_, _, _)
ImportOpenphishLines(store, lines, date_added) ==
    IF lines = <<>> THEN store
    ELSE
      LET url == Head(lines)
          result == process_url_for_openphish(url)
          new == [key |-> result.data, threat_type |-> "phishing",
                  date_added |-> date_added, source |-> "OpenPhish"]
          next ==
            IF url = "" \/ result.data_type = "skip" THEN store
            ELSE [store EXCEPT !.malicious_domains = InsertOrIgnore(@, new)]
      IN  ImportOpenphishLines(next, Tail(lines), date_added)

\* update_from_openphish: the lines are inserted, committed and the cache is
\* cleared
update_from_openphish(store, lines, date_added) ==
    IF store.conn = "closed" THEN [store |-> store, raised |-> TRUE]
    ELSE [store |-> [ImportOpenphishLines(store, lines, date_added)
                        EXCEPT !.cache = clear_cache(@)],
          raised |-> FALSE]

\* the methods a ThreatIntelligence object has: check_url_reputation, which
\* check_threat_intelligence calls, is not one of them
ThreatIntelligenceMethods ==
    {"check_domain_reputation", "check_ip_reputation", "check_domains_batch",
     "check_reputation", "cache_results", "clear_cache", "close"}

(***************************************************************************)
(* rules_engine.py                                                         *)
(***************************************************************************)
\* the weights of the specification's rule table
RULE_WEIGHTS_Specified ==
    [spf_fail |-> 20, dkim_fail |-> 20, dmarc_fail |-> 20,
     domain_mismatch |-> 30, url_in_ti_db |-> 60, domain_in_ti_db |-> 60,
     reply_anomaly |-> 30, dangerous_attachment |-> 40, url_shortener |-> 10,
     ip_in_url |-> 15]

RULE_WEIGHTS ==
    [spf_fail |-> 15, dkim_fail |-> 15, dmarc_fail |-> 10,
     domain_mismatch |-> 20, url_in_ti_db |-> 25, domain_in_ti_db |-> 25,
     reply_anomaly |-> 10, dangerous_attachment |-> 20, url_shortener |-> 10,
     ip_in_url |-> 15]

\* str.lower() on the authentication results the model uses
Lower(str) == IF str = "FAIL" THEN "fail" ELSE str

\* the extension of a file name, lowercased, as filename.lower().endswith
\* sees it
LowerExt(ext) ==
    CASE ext = ".EXE" -> ".exe"
      [] OTHER -> ext

\* utils.DANGEROUS_EXTENSIONS, of which the model uses two
DANGEROUS_EXTENSIONS == {".exe", ".scr"}

IfThen(cond, part) == IF cond THEN <<part>> ELSE <<>>

check_authentication(header_analysis) ==
    LET spf == header_analysis.spf_result
        dkim == header_analysis.dkim_result
        dmarc == header_analysis.dmarc_result
        spf_fail == spf # "" /\ Lower(spf) = "fail"
        dkim_fail == dkim # "" /\ Lower(dkim) = "fail"
        dmarc_fail == dmarc # "" /\ Lower(dmarc) = "fail"
        details_parts == IfThen(spf_fail, "SPF fail")
                         \o IfThen(dkim_fail, "DKIM fail")
                         \o IfThen(dmarc_fail, "DMARC fail")
    IN  [triggered |-> spf_fail \/ dkim_fail \/ dmarc_fail,
         score |-> (IF spf_fail THEN RULE_WEIGHTS.spf_fail ELSE 0)
                   + (IF dkim_fail THEN RULE_WEIGHTS.dkim_fail ELSE 0)
                   + (IF dmarc_fail THEN RULE_WEIGHTS.dmarc_fail ELSE 0),
         details |-> IF details_parts # <<>> THEN details_parts
                     ELSE <<"All authentication passed">>]

check_domain_mismatch(header_analysis) ==
    LET from_domain == header_analysis.from_domain
        reply_to_domain == header_analysis.reply_to_domain
        return_path_domain == header_analysis.return_path_domain
        mismatches ==
            IfThen(from_domain # "" /\ reply_to_domain # ""
                   /\ from_domain # reply_to_domain, "Reply-To")
            \o IfThen(from_domain # "" /\ return_path_domain # ""
                      /\ from_domain # return_path_domain, "Return-Path")
    IN  IF mismatches # <<>>
        THEN [triggered |-> TRUE, score |-> RULE_WEIGHTS.domain_mismatch,
              details |-> <<"From !=">> \o mismatches]
        ELSE [triggered |-> FALSE, score |-> 0,
              details |-> <<"All domains match">>]

\* the loop over domains (lines 144-151): the score, the items found and the
\* cache after the lookups
RECURSIVE CheckDomains(_, _, _)
CheckDomains(store, domains, acc) ==
    IF domains = <<>> THEN [acc EXCEPT !.cache = store.cache]
    ELSE
      LET domain == Head(domains)
          r == check_domain_reputation(store, domain, "ok")
          hit == domain # "" /\ r.rep.found
      IN  CheckDomains(
              [store EXCEPT !.cache = IF domain = "" THEN @ ELSE r.cache],
              Tail(domains),
              [acc EXCEPT
                 !.score = IF hit THEN @ + RULE_WEIGHTS.domain_in_ti_db ELSE @,
                 !.found_items = IF hit THEN Append(@, <<"Domain", domain>>)
                                 ELSE @])

\* the loop over IPs (lines 154-161), which adds the URL weight
RECURSIVE CheckIps(_, _, _)
CheckIps(store, ips, acc) ==
    IF ips = <<>> THEN [acc EXCEPT !.cache = store.cache]
    ELSE
      LET ip == Head(ips)
          r == check_ip_reputation(store, ip, "ok")
          hit == ip # "" /\ r.rep.found
      IN  CheckIps(
              [store EXCEPT !.cache = IF ip = "" THEN @ ELSE r.cache],
              Tail(ips),
              [acc EXCEPT
                 !.score = IF hit THEN @ + RULE_WEIGHTS.url_in_ti_db ELSE @,
                 !.found_items = IF hit THEN Append(@, <<"IP", ip>>) ELSE @])

\* check_threat_intelligence: the rule's result, the cache afterwards, and
\* whether the call raised (AttributeError on the first non-empty URL: the
\* store has no check_url_reputation)
check_threat_intelligence(urls, domains, ips, ti_module, store) ==
    IF ~ti_module
    THEN [raised |-> FALSE, cache |-> store.cache,
          result |-> [triggered |-> FALSE, score |-> 0,
                      details |-> <<"TI module not available">>]]
    ELSE IF /\ \E i \in 1..Len(urls) : urls[i] # ""
            /\ "check_url_reputation" \notin ThreatIntelligenceMethods
    THEN [raised |-> TRUE, cache |-> store.cache,
          result |-> [triggered |-> FALSE, score |-> 0, details |-> <<>>]]
    ELSE
      LET start == [score |-> 0, found_items |-> <<>>, cache |-> store.cache]
          d == CheckDomains(store, domains, start)
          i == CheckIps([store EXCEPT !.cache = d.cache], ips, d)
      IN  [raised |-> FALSE, cache |-> i.cache,
           result |-> [triggered |-> i.found_items # <<>>,
                       score |-> i.score,
                       details |-> IF i.found_items # <<>> THEN i.found_items
                                   ELSE <<"No threats found in TI database">>]]

check_reply_anomaly(header_analysis) ==
    IF header_analysis.has_re_without_references
    THEN [triggered |-> TRUE, score |-> RULE_WEIGHTS.reply_anomaly,
          details |-> <<"Subject contains Re: but References header is missing">>]
    ELSE [triggered |-> FALSE, score |-> 0,
          details |-> <<"No reply anomaly detected">>]

\* the file names of the attachments that end with a dangerous extension
RECURSIVE DangerousFiles(_)
DangerousFiles(attachments) ==
    IF attachments = <<>> THEN <<>>
    ELSE
      LET filename == Head(attachments)
      IN  IfThen(/\ filename.name # ""
                 /\ LowerExt(filename.ext) \in DANGEROUS_EXTENSIONS,
                 filename)
          \o DangerousFiles(Tail(attachments))

check_dangerous_attachments(attachments) ==
    IF attachments = <<>>
    THEN [triggered |-> FALSE, score |-> 0,
          details |-> <<"No attachments found">>]
    ELSE IF DangerousFiles(attachments) # <<>>
    THEN [triggered |-> TRUE, score |-> RULE_WEIGHTS.dangerous_attachment,
          details |-> <<"Dangerous attachments">>]
    ELSE [triggered |-> FALSE, score |-> 0,
          details |-> <<"No dangerous attachments found">>]

check_url_characteristics(url_analysis) ==
    LET shorteners == url_analysis.shortener_detections
        ip_detections == url_analysis.ip_detections
        details_parts == IfThen(shorteners > 0, "URL shorteners found")
                         \o IfThen(ip_detections > 0, "IP addresses in URLs")
    IN  [triggered |-> shorteners > 0 \/ ip_detections > 0,
         score |-> RULE_WEIGHTS.url_shortener * shorteners
                   + RULE_WEIGHTS.ip_in_url * ip_detections,
         details |-> IF details_parts # <<>> THEN details_parts
                     ELSE <<"No suspicious URL characteristics">>]

RECURSIVE TotalScore(_)
TotalScore(triggered_rules) ==
    IF triggered_rules = <<>> THEN 0
    ELSE Head(triggered_rules).weight + TotalScore(Tail(triggered_rules))

calculate_risk_score_uncapped(triggered_rules) == TotalScore(triggered_rules)

calculate_risk_score(triggered_rules) ==
    IF triggered_rules = <<>> THEN 0
    ELSE IF TotalScore(triggered_rules) < 100 THEN TotalScore(triggered_rules)
    ELSE 100

classify_risk_level_69(risk_score) ==
    IF risk_score < 30 THEN "LOW"
    ELSE IF risk_score <= 69 THEN "MEDIUM"
    ELSE "HIGH"

classify_risk_level(risk_score) ==
    IF risk_score < 30 THEN "LOW"
    ELSE IF risk_score <= 70 THEN "MEDIUM"
    ELSE "HIGH"

\* lines 347-384: a rule that triggered is appended under its list name
Triggered(rule, result) ==
    IfThen(result.triggered, [rule |-> rule, weight |-> result.score])

\* evaluate_all_rules: what it returns or that it raised, and the TI cache
\* after the lookups it made
EvaluateAllRules(in, store) ==
    LET auth_result == check_authentication(in.header_analysis)
        domain_result == check_domain_mismatch(in.header_analysis)
        reply_result == check_reply_anomaly(in.header_analysis)
        ti == check_threat_intelligence(in.parsed_email.urls,
                                        in.parsed_email.domains,
                                        in.parsed_email.ips,
                                        in.ti_module, store)
        attach_result ==
            check_dangerous_attachments(in.parsed_email.attachments_metadata)
        url_char_result == check_url_characteristics(in.url_analysis)
        triggered_rules ==
            Triggered("authentication", auth_result)
            \o Triggered("domain_mismatch", domain_result)
            \o Triggered("reply_anomaly", reply_result)
            \o Triggered("threat_intelligence", ti.result)
            \o Triggered("dangerous_attachment", attach_result)
            \o Triggered("url_characteristics", url_char_result)
        risk_score == calculate_risk_score(triggered_rules)
    IN  [outcome |-> IF ti.raised THEN "raised" ELSE "returned",
         cache |-> ti.cache,
         risk_score |-> IF ti.raised THEN 0 ELSE risk_score,
         risk_level |-> IF ti.raised THEN "None"
                        ELSE classify_risk_level(risk_score),
         triggered_rules |-> IF ti.raised THEN <<>> ELSE triggered_rules,
         rule_details |->
             [authentication |-> auth_result,
              domain_mismatch |-> domain_result,
              reply_anomaly |-> reply_result,
              threat_intelligence |-> ti.result,
              dangerous_attachments |-> attach_result,
              url_characteristics |-> url_char_result]]

(***************************************************************************)
(* The inputs of the rule engine.                                          *)
(***************************************************************************)
\* how many shortener and IP detections the URL analysis reports at most
MaxDetections == 1
\* max_cache_size of the store the model opens
MaxCacheSize == 2

HeaderFacts ==
    [spf_result : {"fail", "FAIL", "none"},
     dkim_result : {"fail", "pass"},
     dmarc_result : {"fail", "none"},
     from_domain : {"", "bank.ru"},
     reply_to_domain : {"", "evil.tk"},
     return_path_domain : {"", "bank.ru", "evil.tk"},
     has_re_without_references : BOOLEAN]

UrlAnalyses ==
    [shortener_detections : 0..MaxDetections, ip_detections : 0..MaxDetections]

Pdf == [name |-> "report", ext |-> ".pdf"]
Exe == [name |-> "invoice", ext |-> ".EXE"]

ParsedEmails ==
    [urls : {<<>>, <<"">>, <<"http://evil.tk/verify">>},
     domains : {<<>>, <<"bank.ru">>, <<"www.evil.tk", "evil.tk">>},
     ips : {<<>>, <<"6.6.6.6">>},
     attachments_metadata : {<<>>, <<Pdf>>, <<Pdf, Exe>>}]

RuleInputs ==
    [header_analysis : HeaderFacts, url_analysis : UrlAnalyses,
     parsed_email : ParsedEmails, ti_module : BOOLEAN]

\* the store the model opens: one malicious domain and one malicious IP
OpenStore ==
    [malicious_domains |->
         {[key |-> "evil.tk", threat_type |-> "malware_download",
           date_added |-> 0, source |-> "URLhaus"]},
     malicious_ips |->
         {[key |-> "6.6.6.6", threat_type |-> "malicious",
           date_added |-> 0, source |-> "URLhaus"]},
     cache |-> <<>>,
     max_cache_size |-> MaxCacheSize,
     conn |-> "open"]

NoRuleInput ==
    [header_analysis |->
         [spf_result |-> "none", dkim_result |-> "pass",
          dmarc_result |-> "none", from_domain |-> "",
          reply_to_domain |-> "", return_path_domain |-> "",
          has_re_without_references |-> FALSE],
     url_analysis |-> [shortener_detections |-> 0, ip_detections |-> 0],
     parsed_email |-> [urls |-> <<>>, domains |-> <<>>, ips |-> <<>>,
                       attachments_metadata |-> <<>>],
     ti_module |-> FALSE]

NoRuleResult ==
    [EvaluateAllRules(NoRuleInput, OpenStore) EXCEPT !.outcome = "none"]

NoAggInput ==
    [ml_result |-> [phishing_probability |-> NoneV, has_confidence |-> FALSE,
                    confidence |-> NoneV],
     rules_result |-> [has_risk_score |-> FALSE, risk_score |-> NoneV],
     file |-> NoFile("nopath"), use_config |-> FALSE]

(***************************************************************************)
(* The operations on a threat-intelligence store, as the state machine     *)
(* records them.                                                           *)
(***************************************************************************)
\* a freshly created store: the schema and no indicator
EmptyStore ==
    [OpenStore EXCEPT !.malicious_domains = {}, !.malicious_ips = {}]

NoOp ==
    [name |-> "none", domains |-> <<>>, ips |-> <<>>, key |-> <<"", "">>,
     io |-> "ok", ios |-> <<>>, feed |-> "none", before |-> EmptyStore,
     imported_before |-> {}]

NoReputation ==
    [raised |-> FALSE, rep |-> Clean, malicious_domains |-> <<>>,
     malicious_ips |-> <<>>, domain_in_urlhaus |-> FALSE,
     domain_in_openphish |-> FALSE, ip_in_blacklist |-> FALSE]

NoHistory ==
    [steps |-> 0, imported |-> {}, cache_results_used |-> FALSE,
     seen_clean |-> {}, used |-> <<>>]

IdleTI ==
    /\ tiOp = NoOp
    /\ tiOut = NoReputation
    /\ tiHist = NoHistory

(***************************************************************************)
(* url_domain_analyzer.py: the detection of an IP address in a URL.  A URL *)
(* is the text http://<host>/<path>; host and path are a name or a dotted  *)
(* quad of decimal numbers of one to three digits, written without leading *)
(* zeros.                                                                  *)
(***************************************************************************)
NameToken == [kind |-> "name", quad |-> <<>>]
NoToken == [kind |-> "none", quad |-> <<>>]
QuadToken(q) == [kind |-> "quad", quad |-> q]

NoUrl == [host |-> NameToken, path |-> NoToken]

\* ip_pattern.findall(url): the dotted quads of the text, in the order in
\* which they stand in it
IpPatternMatches(url) ==
    (IF url.host.kind = "quad" THEN <<url.host.quad>> ELSE <<>>)
    \o (IF url.path.kind = "quad" THEN <<url.path.quad>> ELSE <<>>)

\* is_private_ip: the RFC 1918 ranges
is_private_ip(ip) ==
    IF Len(ip) # 4 THEN FALSE
    ELSE \/ ip[1] = 10
         \/ ip[1] = 192 /\ ip[2] = 168
         \/ ip[1] = 172 /\ 16 <= ip[2] /\ ip[2] <= 31

NoDetection ==
    [outcome |-> "none", has_ip |-> FALSE, ip |-> <<>>, found |-> FALSE,
     invalid |-> FALSE, is_private |-> FALSE]

\* detect_ip_in_url: the first match of the pattern anywhere in the URL is
\* validated and tested for a private range
detect_ip_in_url(url) ==
    LET matches == IpPatternMatches(url)
        ip == matches[1]
    IN  IF matches = <<>>
        THEN [NoDetection EXCEPT !.outcome = "returned"]
        ELSE IF Len(ip) # 4 \/ ~\A i \in 1..Len(ip) : 0 <= ip[i] /\ ip[i] <= 255
        THEN [NoDetection EXCEPT !.outcome = "returned", !.invalid = TRUE]
        ELSE [outcome |-> "returned", has_ip |-> ~is_private_ip(ip),
              ip |-> ip, found |-> TRUE, invalid |-> FALSE,
              is_private |-> is_private_ip(ip)]

(***************************************************************************)
(* email_parser.py: extract_domains.  A message has a body URL             *)
(* http://<host>/, an address user@<host> in the From header and a         *)
(* Received header "from <host> by ..."; "" stands for none.               *)
(***************************************************************************)
\* the host strings of the model
HostStrings == {"evil.tk", "www.evil.tk", "WWW.Evil.tk", "6.6.6.6", "999.1.1.1"}

\* ip_pattern matches the text: four groups of one to three digits
MatchesIpPattern(host) == host \in {"6.6.6.6", "999.1.1.1"}

\* step 4: every part of the dotted quad is in 0..255
OctetsValid(ip) == ip = "6.6.6.6"

\* str.lower()
LowerHost(host) ==
    CASE host = "WWW.Evil.tk" -> "www.evil.tk"
      [] OTHER -> host

\* tldextract.extract(url): domain + "." + suffix of a URL with a name host
RegistrableDomain(host) ==
    CASE host \in {"evil.tk", "www.evil.tk"} -> "evil.tk"
      [] host = "WWW.Evil.tk" -> "Evil.tk"
      [] OTHER -> host

NoMail == [url_host |-> "", from_host |-> "", received_host |-> ""]

NoExtraction ==
    [outcome |-> "none", domains |-> {}, ips |-> {}, email_domains |-> {}]

\* extract_domains: the unique domains, valid IPs and e-mail domains
extract_domains(mail) ==
    LET \* 1. the URL: an IP anywhere in it, else the registrable domain
        url_ips == IF mail.url_host # "" /\ MatchesIpPattern(mail.url_host)
                   THEN {mail.url_host} ELSE {}
        url_domains ==
            IF mail.url_host # "" /\ ~MatchesIpPattern(mail.url_host)
            THEN {LowerHost(RegistrableDomain(mail.url_host))} ELSE {}
        \* 2. the address headers: what follows the @, and every IP
        email_domains == IF mail.from_host # ""
                         THEN {LowerHost(mail.from_host)} ELSE {}
        header_ips == IF mail.from_host # "" /\ MatchesIpPattern(mail.from_host)
                      THEN {mail.from_host} ELSE {}
        \* 3. Received: what follows "from", and every IP
        received_domains == IF mail.received_host # ""
                            THEN {LowerHost(mail.received_host)} ELSE {}
        received_ips ==
            IF mail.received_host # "" /\ MatchesIpPattern(mail.received_host)
            THEN {mail.received_host} ELSE {}
        ips == url_ips \cup header_ips \cup received_ips
        domains == url_domains \cup received_domains
    IN  [outcome |-> "returned",
         domains |-> domains \cup email_domains,
         ips |-> {ip \in ips : OctetsValid(ip)},
         email_domains |-> email_domains]

(***************************************************************************)
(* feature_extractor.py: the fit state of a FeatureExtractor and the       *)
(* artefact it saves and loads.  A fitted vectoriser is named by the       *)
(* vocabulary it learnt and a fitted scaler by the ranges it learnt.       *)
(***************************************************************************)
\* FeatureExtractor(): a new vectoriser and a new scaler, neither fitted
FreshExtractor ==
    [tfidf_vectorizer |-> "unfitted", is_fitted |-> FALSE,
     synthetic_scaler |-> "unfitted", is_scaler_fitted |-> FALSE]

NoArtefact ==
    [exists |-> FALSE, has_is_fitted |-> FALSE, has_scaler |-> FALSE,
     has_is_scaler_fitted |-> FALSE, vectorizer |-> "unfitted",
     is_fitted |-> FALSE, scaler |-> "unfitted", is_scaler_fitted |-> FALSE]

\* an artefact of an earlier format: the fitted vectoriser only
LegacyFile ==
    [NoArtefact EXCEPT !.exists = TRUE, !.vectorizer = "vocabulary_old"]

NoFeatures ==
    [outcome |-> "none", tfidf_vector |-> <<>>, synthetic |-> <<>>]

Refused == [NoFeatures EXCEPT !.outcome = "ValueError"]

\* fit_vectorizer: an empty list is refused, and TfidfVectorizer.fit raises
\* on texts that leave no term; is_fitted is set after the fit
fit_vectorizer(ex, texts) ==
    IF texts \in {"empty_list", "no_terms"}
    THEN [ex |-> ex, out |-> Refused]
    ELSE [ex |-> [ex EXCEPT !.tfidf_vectorizer = texts, !.is_fitted = TRUE],
          out |-> [NoFeatures EXCEPT !.outcome = "returned"]]

\* fit_scaler
fit_scaler(ex, synthetic_features_list) ==
    IF synthetic_features_list = "empty_list"
    THEN [ex |-> ex, out |-> Refused]
    ELSE [ex |-> [ex EXCEPT !.synthetic_scaler = synthetic_features_list,
                            !.is_scaler_fitted = TRUE],
          out |-> [NoFeatures EXCEPT !.outcome = "returned"]]

\* vectorize_text: the TF-IDF vector of the text over the vocabulary
vectorize_text(ex, text) ==
    IF ~ex.is_fitted \/ ex.tfidf_vectorizer = "unfitted"
    THEN Refused
    ELSE [NoFeatures EXCEPT !.outcome = "returned",
                            !.tfidf_vector = <<ex.tfidf_vectorizer, text>>]

\* extract_all_features: the synthetic features, scaled when the scaler is
\* fitted, and the TF-IDF vector of the text
extract_all_features(ex, text, features) ==
    LET synthetic == IF ex.is_scaler_fitted
                     THEN <<ex.synthetic_scaler, features>>
                     ELSE <<"unscaled", features>>
        tfidf == vectorize_text(ex, text)
    IN  IF tfidf.outcome # "returned" THEN tfidf
        ELSE [tfidf EXCEPT !.synthetic = synthetic]

\* save_vectorizer: the file written, or the refusal
save_vectorizer(ex, file) ==
    IF ~ex.is_fitted THEN [file |-> file, out |-> Refused]
    ELSE [file |-> [exists |-> TRUE, has_is_fitted |-> TRUE,
                    has_scaler |-> TRUE, has_is_scaler_fitted |-> TRUE,
                    vectorizer |-> ex.tfidf_vectorizer,
                    is_fitted |-> ex.is_fitted,
                    scaler |-> ex.synthetic_scaler,
                    is_scaler_fitted |-> ex.is_scaler_fitted],
          out |-> [NoFeatures EXCEPT !.outcome = "returned"]]

\* a load that makes a new scaler whatever the file holds
load_vectorizer_new_scaler(ex, file) ==
    IF ~file.exists
    THEN [ex |-> ex, out |-> [NoFeatures EXCEPT !.outcome = "FileNotFound"]]
    ELSE [ex |-> [tfidf_vectorizer |-> file.vectorizer,
                  is_fitted |-> IF file.has_is_fitted THEN file.is_fitted
                                ELSE TRUE,
                  synthetic_scaler |-> "unfitted",
                  is_scaler_fitted |-> FALSE],
          out |-> [NoFeatures EXCEPT !.outcome = "returned"]]

\* load_vectorizer: the vectoriser, the scaler when the file has one, and
\* the flags with their defaults
load_vectorizer(ex, file) ==
    IF ~file.exists
    THEN [ex |-> ex, out |-> [NoFeatures EXCEPT !.outcome = "FileNotFound"]]
    ELSE [ex |-> [tfidf_vectorizer |-> file.vectorizer,
                  is_fitted |-> IF file.has_is_fitted THEN file.is_fitted
                                ELSE TRUE,
                  synthetic_scaler |-> IF file.has_scaler THEN file.scaler
                                       ELSE "unfitted",
                  is_scaler_fitted |->
                      IF file.has_scaler /\ file.has_is_scaler_fitted
                      THEN file.is_scaler_fitted ELSE FALSE],
          out |-> [NoFeatures EXCEPT !.outcome = "returned"]]

\* the training extractor, the extractor of the analysing process and the
\* artefact file; saved is the extractor as it was when the file was
\* written, prepared says for which extractor a fit_vectorizer or a
\* load_vectorizer has succeeded, and loaded which one has loaded a file
\* that saved_by wrote
NoExtractors ==
    [ex |-> [trainer |-> FreshExtractor, analyser |-> FreshExtractor],
     file |-> NoArtefact, saved |-> FreshExtractor, saved_by |-> "none",
     prepared |-> [trainer |-> FALSE, analyser |-> FALSE],
     loaded |-> [trainer |-> FALSE, analyser |-> FALSE]]

NoFEOp == [name |-> "none", on |-> "none", steps |-> 0]

(***************************************************************************)
(* ml_classifier.py: the classifier object and its inference calls.  What  *)
(* the loaded model's own methods return for the input is chosen by the    *)
(* caller of the operators below.                                          *)
(***************************************************************************)
\* MLClassifier(): model and classes_ are None
NoModel == [kind |-> "None", classes_ |-> <<>>]

\* the model files: one that does not exist, one that does not unpickle, and
\* pickles of trained models: with predict_proba, with decision_function
\* only, and with predict only; classes_ as the training labels gave them
ModelFiles ==
    {[opens |-> FALSE, unpickles |-> FALSE, kind |-> "None", classes_ |-> <<>>],
     [opens |-> TRUE, unpickles |-> FALSE, kind |-> "None", classes_ |-> <<>>],
     [opens |-> TRUE, unpickles |-> TRUE, kind |-> "predict_proba",
      classes_ |-> <<0, 1>>],
     [opens |-> TRUE, unpickles |-> TRUE, kind |-> "predict_proba",
      classes_ |-> <<1, 0>>],
     [opens |-> TRUE, unpickles |-> TRUE, kind |-> "decision_function",
      classes_ |-> <<0, 1>>],
     [opens |-> TRUE, unpickles |-> TRUE, kind |-> "predict",
      classes_ |-> <<1>>]}

\* a load that leaves the classifier as it was
load_model_dropped(classifier, file) ==
    [model |-> classifier, raised |-> ~(file.opens /\ file.unpickles)]

\* load_model: open() or pickle.load() raise before anything is assigned
load_model(classifier, file) ==
    IF file.opens /\ file.unpickles
    THEN [model |-> [kind |-> file.kind, classes_ |-> file.classes_],
          raised |-> FALSE]
    ELSE [model |-> classifier, raised |-> TRUE]

\* _get_class_indices: the index of the phishing class (0-based)
phishing_idx(classifier) ==
    LET classes == classifier.classes_
        has(c) == \E i \in 1..Len(classes) : classes[i] = c
    IN  IF has(0) /\ has(1)
        THEN (CHOOSE i \in 1..Len(classes) : classes[i] = 1) - 1
        ELSE IF Len(classes) >= 2 THEN 1 ELSE 0

\* _sigmoid in double precision, for the scores of the model: exp(-40) is
\* below half an ulp of 1 and exp(-800) underflows to 0
sigmoid(x) ==
    CASE x = 0 -> Num(1, 2)
      [] x = 40 -> One
      [] x = -800 -> Zero

\* _predict_phishing_probability for one row; answer holds what the model's
\* predict_proba (a row of probabilities) and decision_function return
predict_phishing_probability(classifier, answer) ==
    CASE classifier.kind = "predict_proba" ->
           answer.probas[phishing_idx(classifier) + 1]
      [] classifier.kind = "decision_function" -> sigmoid(answer.score)
      [] OTHER -> Zero

NoPrediction ==
    [outcome |-> "none", prediction |-> 0, confidence |-> Zero,
     phishing_probability |-> Zero, class_label |-> "None"]

\* one row of classify_feature_vector / classify_feature_matrix: the model's
\* predict raises on an input of the wrong width
ClassifyRow(classifier, fits, answer) ==
    IF classifier = NoModel
    THEN [NoPrediction EXCEPT !.outcome = "ModelNotLoaded"]
    ELSE IF ~fits THEN [NoPrediction EXCEPT !.outcome = "PredictError"]
    ELSE
      LET pred == answer.pred
          prob_phishing == predict_phishing_probability(classifier, answer)
          prob_legit == FAdd(One, FMul(Num(-1, 1), prob_phishing))
      IN  [outcome |-> "returned",
           prediction |-> pred,
           confidence |-> IF pred = 1 THEN prob_phishing ELSE prob_legit,
           phishing_probability |-> prob_phishing,
           class_label |-> IF pred = 1 THEN "phishing" ELSE "legitimate"]

\* classify_feature_vector: the result for the first row of the input
classify_feature_vector(classifier, fits, answers) ==
    ClassifyRow(classifier, fits, Head(answers))

\* classify_feature_matrix: the results for all rows, or the error
classify_feature_matrix(classifier, fits, answers) ==
    IF classifier = NoModel
    THEN <<[NoPrediction EXCEPT !.outcome = "ModelNotLoaded"]>>
    ELSE IF ~fits THEN <<[NoPrediction EXCEPT !.outcome = "PredictError"]>>
    ELSE [i \in 1..Len(answers) |-> ClassifyRow(classifier, fits, answers[i])]

\* what the model answers for a row
ModelAnswers ==
    {[pred |-> 1, probas |-> <<Num(1, 4), Num(3, 4)>>, score |-> 40],
     [pred |-> 0, probas |-> <<One, Zero>>, score |-> -800],
     [pred |-> 1, probas |-> <<Num(1, 2), Num(1, 2)>>, score |-> 0]}

NoMLOp == [name |-> "none", model_before |-> NoModel]

NoMLHistory == [steps |-> 0, loaded |-> FALSE, refused |-> FALSE]

(***************************************************************************)
(* scripts/update_threat_intel.py, statement by statement: an ingestion    *)
(* reads its feed row by row, writes a batch with executemany when it has  *)
(* BATCH_SIZE rows, writes the rest after the loop, commits and clears the *)
(* cache.  What executemany writes is in the connection's open transaction *)
(* and is seen by every query on that connection; commit writes it to the  *)
(* database file.                                                          *)
(***************************************************************************)
\* BATCH_SIZE is 1000 in the script; the feeds of the model have a few rows
\* and its batches are as short
BATCH_SIZE == 2

NoTables == [malicious_domains |-> {}, malicious_ips |-> {}]

TablesOf(store) ==
    [malicious_domains |-> store.malicious_domains,
     malicious_ips |-> store.malicious_ips]

\* cursor.executemany("INSERT OR IGNORE ...", batch)
RECURSIVE ExecuteMany(_, _)
ExecuteMany(table, batch) ==
    IF batch = <<>> THEN table
    ELSE ExecuteMany(InsertOrIgnore(table, Head(batch)), Tail(batch))

\* one row of a feed: whether reading it raises, the table it goes to and
\* the tuple to insert.  csv.DictReader gives None for a column the line
\* does not have, and None.strip() raises AttributeError ("None" is such a
\* url); an OpenPhish line is a URL
RowResult(kind, row, date_added) ==
    IF kind = "urlhaus"
    THEN LET threat_type == IF row.threat = "" THEN "malicious"
                            ELSE row.threat
             result == process_url_for_urlhaus(row.url)
         IN  [raised |-> row.url = "None",
              data_type |-> IF row.url = "" THEN "skip" ELSE result.data_type,
              new |-> [key |-> result.data, threat_type |-> threat_type,
                       date_added |-> date_added, source |-> "URLhaus"]]
    ELSE LET result == process_url_for_openphish(row.url)
         IN  [raised |-> FALSE,
              data_type |-> IF row.url = "" THEN "skip" ELSE result.data_type,
              new |-> [key |-> result.data, threat_type |-> "phishing",
                       date_added |-> date_added, source |-> "OpenPhish"]]

NoIngestion ==
    [pc |-> "idle", kind |-> "none", feed |-> "none", rest |-> <<>>,
     domains_batch |-> <<>>, ips_batch |-> <<>>, date_added |-> 0]

NoLookup == [pc |-> "idle", key |-> <<"", "">>, reputation |-> Clean]

\* runs and lookups: how many ingestions and lookups were started; start:
\* the store when the current ingestion began; flushed: the rows its
\* executemany calls wrote; aborted: the ingestions that raised;
\* interleaved: a lookup made a step while an ingestion was under way, or
\* an ingestion began while a lookup was under way
NoIngestHistory ==
    [runs |-> 0, lookups |-> 0, start |-> EmptyStore, flushed |-> {},
     aborted |-> {}, interleaved |-> FALSE]

IdleML ==
    /\ mlModel = NoModel
    /\ mlOp = NoMLOp
    /\ mlOut = <<NoPrediction>>
    /\ mlHist = NoMLHistory

IdleUrl ==
    /\ urlIn = NoUrl
    /\ urlOut = NoDetection

IdleMail ==
    /\ mailIn = NoMail
    /\ mailOut = NoExtraction

IdleFE ==
    /\ feState = NoExtractors
    /\ feOp = NoFEOp
    /\ feOut = NoFeatures

(***************************************************************************)
(* email_parser.py: extract_body.  The parsed message holds its body parts *)
(* in message order, as a list of parts (the format eml_parser gives) or   *)
(* as a dict with the contents of the text and of the html parts, and the  *)
(* raw body.                                                               *)
(***************************************************************************)
\* the content types of the model and what content_type.lower() makes of them
ContentTypes ==
    {"text/plain", "Text/Plain; charset=utf-8", "text/html", "image/png"}

LowerContentType(content_type) ==
    CASE content_type = "Text/Plain; charset=utf-8" ->
           "text/plain; charset=utf-8"
      [] OTHER -> content_type

\* 'text/plain' in content_type, 'text/html' in content_type
IsTextPlain(content_type) ==
    content_type \in {"text/plain", "text/plain; charset=utf-8"}
IsTextHtml(content_type) == content_type = "text/html"

\* the contents of the model: str values and one bytes value
Contents == {"", "hello", "b'bye'"}

\* decode_text: a str is returned as it is, bytes are decoded
decode_text(content) ==
    CASE content = "b'bye'" -> "bye"
      [] OTHER -> content

\* lines 272-281: the loop over the parts of the list format
RECURSIVE BodyLoop(_, _)
BodyLoop(parts, body) ==
    IF parts = <<>> THEN body
    ELSE
      LET part == Head(parts)
          content_type == LowerContentType(part.content_type)
          decoded == IF part.content # "" THEN decode_text(part.content)
                     ELSE ""
          next == IF IsTextPlain(content_type)
                  THEN [body EXCEPT !.text = decoded]
                  ELSE IF IsTextHtml(content_type)
                  THEN [body EXCEPT !.html = decoded]
                  ELSE body
      IN  BodyLoop(Tail(parts), next)

\* the contents of the parts of one kind, in message order: the value of
\* the dict format's 'text' or 'html' key
PartsOfKind(parts, kind) ==
    LET IsKind(part) ==
            IF kind = "text"
            THEN IsTextPlain(LowerContentType(part.content_type))
            ELSE IsTextHtml(LowerContentType(part.content_type))
        of_kind == SelectSeq(parts, IsKind)
    IN  [i \in 1..Len(of_kind) |-> of_kind[i].content]

\* lines 283-297: the dict format, whose first text and first html are taken
BodyOfDict(parts) ==
    LET text_parts == PartsOfKind(parts, "text")
        html_parts == PartsOfKind(parts, "html")
    IN  [text |-> IF text_parts # <<>> THEN decode_text(text_parts[1]) ELSE "",
         html |-> IF html_parts # <<>> THEN decode_text(html_parts[1]) ELSE ""]

extract_body(parsed_email) ==
    LET body == IF parsed_email.format = "list"
                THEN BodyLoop(parsed_email.body, [text |-> "", html |-> ""])
                ELSE BodyOfDict(parsed_email.body)
    IN  IF body.text = "" /\ body.html = "" /\ parsed_email.raw_body # <<>>
        THEN [body EXCEPT !.text = decode_text(parsed_email.raw_body[1])]
        ELSE body

NoParsedEmail == [format |-> "list", body |-> <<>>, raw_body |-> <<>>]
NoBody == [done |-> FALSE, text |-> "", html |-> ""]

IdleBody ==
    /\ bodyIn = NoParsedEmail
    /\ bodyOut = NoBody

IdleIngest ==
    /\ ingStore = EmptyStore
    /\ ingDisk = NoTables
    /\ ing = NoIngestion
    /\ look = NoLookup
    /\ ingHist = NoIngestHistory

(***************************************************************************)
(* The initial values of the parts a specification does not exercise.      *)
(***************************************************************************)
IdleCore ==
    /\ aggIn = NoAggInput
    /\ callerCfg = AggregationConfig
    /\ aggOut = NoResult
    /\ aggCalls = 0
    /\ ruleIn = NoRuleInput
    /\ ruleOut = NoRuleResult
    /\ tiStore = OpenStore
    /\ levelIn = 0
    /\ levelOut = "none"
    /\ IdleTI

coreVars == <<aggVars, ruleVars, levelVars, tiVars>>

(***************************************************************************)
(* The aggregator as a state machine: a caller holds a configuration       *)
(* object and the arguments of a call, and calls aggregate_and_decide.     *)
(***************************************************************************)
InitAgg ==
    /\ aggIn \in AggInputs
    /\ callerCfg \in CallerConfigs
    /\ aggOut = NoResult
    /\ aggCalls = 0
    /\ ruleIn = NoRuleInput
    /\ ruleOut = NoRuleResult
    /\ tiStore = OpenStore
    /\ levelIn = 0
    /\ levelOut = "none"
    /\ IdleTI
    /\ IdleML
    /\ IdleUrl
    /\ IdleMail
    /\ IdleFE
    /\ IdleBody
    /\ IdleIngest

aggregate_and_decide ==
    /\ aggCalls < MaxCalls
    /\ aggOut' = AggregateResult(aggIn, callerCfg)
    /\ callerCfg' = IF aggIn.use_config THEN load_config(aggIn.file, callerCfg)
                    ELSE callerCfg
    /\ aggCalls' = aggCalls + 1
    /\ UNCHANGED <<aggIn, ruleVars, levelVars, tiVars, mlVars, urlVars,
                 mailVars, feVars, bodyVars,
                 ingVars>>

NextAgg == aggregate_and_decide

SpecAgg == InitAgg /\ [][NextAgg]_vars

(***************************************************************************)
(* The rule engine as a state machine: the facts of one message are        *)
(* evaluated against an open store, whose cache the lookups fill.          *)
(***************************************************************************)
InitRules ==
    /\ ruleIn \in RuleInputs
    /\ ruleOut = NoRuleResult
    /\ tiStore = OpenStore
    /\ aggIn = NoAggInput
    /\ callerCfg = AggregationConfig
    /\ aggOut = NoResult
    /\ aggCalls = 0
    /\ levelIn = 0
    /\ levelOut = "none"
    /\ IdleTI
    /\ IdleML
    /\ IdleUrl
    /\ IdleMail
    /\ IdleFE
    /\ IdleBody
    /\ IdleIngest

evaluate_all_rules ==
    LET out == EvaluateAllRules(ruleIn, tiStore)
    IN  /\ ruleOut' = out
        /\ tiStore' = [tiStore EXCEPT !.cache = out.cache]
        /\ UNCHANGED <<ruleIn, aggVars, levelVars, tiVars, mlVars, urlVars,
                     mailVars, feVars, bodyVars,
                 ingVars>>

NextRules == evaluate_all_rules

SpecRules == InitRules /\ [][NextRules]_vars

(***************************************************************************)
(* classify_risk_level applied to every risk score the engine can return.  *)
(***************************************************************************)
RiskScoreRange == 0..100

InitLevel ==
    /\ levelIn \in RiskScoreRange
    /\ levelOut = "none"
    /\ ruleIn = NoRuleInput
    /\ ruleOut = NoRuleResult
    /\ tiStore = OpenStore
    /\ aggIn = NoAggInput
    /\ callerCfg = AggregationConfig
    /\ aggOut = NoResult
    /\ aggCalls = 0
    /\ IdleTI
    /\ IdleML
    /\ IdleUrl
    /\ IdleMail
    /\ IdleFE
    /\ IdleBody
    /\ IdleIngest

ClassifyRiskLevel ==
    /\ levelOut' = classify_risk_level(levelIn)
    /\ UNCHANGED <<levelIn, aggVars, ruleVars, tiVars, mlVars, urlVars,
                 mailVars, feVars, bodyVars,
                 ingVars>>

NextLevel == ClassifyRiskLevel

SpecLevel == InitLevel /\ [][NextLevel]_vars

(***************************************************************************)
(* The threat-intelligence store as a state machine: lookups, cache        *)
(* operations, feed imports and close, in any order, on one store.         *)
(***************************************************************************)
\* how many operations are made on the store
MaxTISteps == 4

LookupDomains == {"", "www.evil.tk"}
LookupIps == {"6.6.6.6", "8.8.8.8"}
BatchDomains == {<<>>, <<"bank.ru", "EVIL.tk", "", "evil.tk", "bank.ru">>}
\* the arguments of check_reputation, with the outcome of each IP's SELECT
ReputationQueries ==
    {[domains |-> <<"www.evil.tk">>, ips |-> <<>>, ios |-> <<>>],
     [domains |-> <<"www.evil.tk", "EVIL.tk", "www.evil.tk">>,
      ips |-> <<"6.6.6.6", "", "6.6.6.6">>, ios |-> <<"ok", "ok", "ok">>],
     [domains |-> <<"bank.ru">>, ips |-> <<"8.8.8.8", "6.6.6.6">>,
      ios |-> <<"error", "error">>]}
CacheResultsKeys ==
    {<<"ip", "6.6.6.6">>, <<"domain", "evil.tk">>,
     <<"url", "http://bank.ru/login">>}
CacheResultsValues ==
    {Clean, [found |-> TRUE, threat_type |-> "phishing", source |-> "manual"]}
IOOutcomes == {"ok", "error"}

UrlhausFeeds == {"urlhaus_empty", "urlhaus_recent", "urlhaus_older"}
OpenphishFeeds == {"openphish_feed"}

\* the data rows of the URLhaus feeds (url and threat columns)
UrlhausRows(feed) ==
    CASE feed = "urlhaus_recent" ->
           <<[url |-> "http://www.evil.tk/a", threat |-> "malware_download"],
             [url |-> "http://6.6.6.6/x", threat |-> ""],
             [url |-> "", threat |-> "malware_download"]>>
      [] feed = "urlhaus_older" ->
           <<[url |-> "http://bank.ru/login", threat |-> "malware_download"],
             [url |-> "http://EVIL.tk:8080/b", threat |-> ""]>>
      [] feed = "urlhaus_long" ->
           <<[url |-> "http://www.evil.tk/a", threat |-> "malware_download"],
             [url |-> "http://bank.ru/login", threat |-> ""],
             [url |-> "http://6.6.6.6/x", threat |-> "malware_download"]>>
      [] feed = "urlhaus_short_row" ->
           <<[url |-> "http://www.evil.tk/a", threat |-> "malware_download"],
             [url |-> "http://bank.ru/login", threat |-> ""],
             [url |-> "None", threat |-> "None"],
             [url |-> "http://6.6.6.6/x", threat |-> "malware_download"]>>
      [] OTHER -> <<>>

\* the lines of the OpenPhish feed
OpenphishLines(feed) ==
    <<"http://www.evil.tk/a", "", "http://6.6.6.6/x", "http://bank.ru/login">>

InitTI ==
    /\ tiStore = EmptyStore
    /\ IdleTI
    /\ ruleIn = NoRuleInput
    /\ ruleOut = NoRuleResult
    /\ aggIn = NoAggInput
    /\ callerCfg = AggregationConfig
    /\ aggOut = NoResult
    /\ aggCalls = 0
    /\ levelIn = 0
    /\ levelOut = "none"
    /\ IdleML
    /\ IdleUrl
    /\ IdleMail
    /\ IdleFE
    /\ IdleBody
    /\ IdleIngest

\* The keys that lookups have used since the cache was last cleared, the
\* least recently used first.  A lookup uses its key when it is answered: from
\* the cache, or by a store query that succeeds; the batch lookup uses the
\* keys of its hits.
Use(used, key) == SelectSeq(used, LAMBDA k : k # key) \o <<key>>

MostRecent(used, n) ==
    IF Len(used) <= n THEN used ELSE SubSeq(used, Len(used) - n + 1, Len(used))

Answered(store, used, key, io) ==
    \/ \E i \in 1..Len(MostRecent(used, store.max_cache_size)) :
           MostRecent(used, store.max_cache_size)[i] = key
    \/ store.conn = "open" /\ io = "ok"

UsedByDomain(store, used, domain, io) ==
    LET key == <<"domain", normalize_domain_for_ti(domain)>>
    IN  IF domain # "" /\ Answered(store, used, key, io)
        THEN Use(used, key) ELSE used

UsedByIp(store, used, ip, io) ==
    IF ip # "" /\ Answered(store, used, <<"ip", ip>>, io)
    THEN Use(used, <<"ip", ip>>) ELSE used

RECURSIVE UsedByHits(_, _, _)
UsedByHits(store, used, domains) ==
    IF domains = <<>> THEN used
    ELSE LET d == Head(domains)
             norm == normalize_domain_for_ti(d)
             next == IF d # "" /\ \E row \in store.malicious_domains :
                                     row.key = norm
                     THEN Use(used, <<"domain", norm>>) ELSE used
         IN  UsedByHits(store, next, Tail(domains))

UsedByBatch(store, used, domains, io) ==
    IF store.conn = "open" /\ io = "ok"
    THEN UsedByHits(store, used, domains) ELSE used

\* the IPs of check_reputation, up to the first one that raises
RECURSIVE UsedByIps(_, _, _, _)
UsedByIps(store, used, ips, ios) ==
    IF ips = <<>> THEN used
    ELSE IF Head(ips) # "" /\ store.conn = "closed"
            /\ ~Answered(store, used, <<"ip", Head(ips)>>, "error")
    THEN used
    ELSE UsedByIps(store, UsedByIp(store, used, Head(ips), Head(ios)),
                   Tail(ips), Tail(ios))

UsedByReputation(store, used, domains, ips, io, ios) ==
    IF store.conn = "closed" /\ \E i \in 1..Len(domains) : domains[i] # ""
    THEN used
    ELSE UsedByIps(store, UsedByBatch(store, used, domains, io), ips, ios)

\* what every operation on the store records
\* (seen_clean: the keys that the cache has held a not-found result for)
Recorded(name, imported, cache, used) ==
    /\ tiHist.steps < MaxTISteps
    /\ tiHist' = [tiHist EXCEPT
                    !.steps = @ + 1,
                    !.imported = @ \cup imported,
                    !.used = used,
                    !.cache_results_used = @ \/ name = "cache_results",
                    !.seen_clean =
                        @ \cup {cache[i].key :
                                  i \in {j \in 1..Len(cache) :
                                           ~cache[j].rep.found}}]
    /\ UNCHANGED <<aggVars, ruleIn, ruleOut, levelVars, mlVars, urlVars,
                   mailVars, feVars, bodyVars,
                 ingVars>>

CheckDomainReputation ==
    \E domain \in LookupDomains, io \in IOOutcomes :
        LET r == check_domain_reputation(tiStore, domain, io)
        IN  /\ Recorded("check_domain_reputation", {}, r.cache,
                        UsedByDomain(tiStore, tiHist.used, domain, io))
            /\ tiOp' = [NoOp EXCEPT !.name = "check_domain_reputation",
                                    !.domains = <<domain>>, !.io = io,
                                    !.before = tiStore]
            /\ tiOut' = [NoReputation EXCEPT !.rep = r.rep,
                                             !.raised = r.raised]
            /\ tiStore' = [tiStore EXCEPT !.cache = r.cache]

CheckIpReputation ==
    \E ip \in LookupIps, io \in IOOutcomes :
        LET r == check_ip_reputation(tiStore, ip, io)
        IN  /\ Recorded("check_ip_reputation", {}, r.cache,
                        UsedByIp(tiStore, tiHist.used, ip, io))
            /\ tiOp' = [NoOp EXCEPT !.name = "check_ip_reputation",
                                    !.ips = <<ip>>, !.io = io,
                                    !.before = tiStore]
            /\ tiOut' = [NoReputation EXCEPT !.rep = r.rep,
                                             !.raised = r.raised]
            /\ tiStore' = [tiStore EXCEPT !.cache = r.cache]

CheckDomainsBatch ==
    \E domains \in BatchDomains, io \in IOOutcomes :
        LET r == check_domains_batch(tiStore, domains, io)
        IN  /\ Recorded("check_domains_batch", {}, r.cache,
                        UsedByBatch(tiStore, tiHist.used, domains, io))
            /\ tiOp' = [NoOp EXCEPT !.name = "check_domains_batch",
                                    !.domains = domains, !.io = io,
                                    !.before = tiStore]
            /\ tiOut' = [NoReputation EXCEPT
                           !.raised = r.raised,
                           !.malicious_domains = r.malicious_domains,
                           !.domain_in_urlhaus = r.domain_in_urlhaus,
                           !.domain_in_openphish = r.domain_in_openphish]
            /\ tiStore' = [tiStore EXCEPT !.cache = r.cache]

CheckReputation ==
    \E q \in ReputationQueries, io \in IOOutcomes :
        LET r == check_reputation(tiStore, q.domains, q.ips, io, q.ios)
        IN  /\ Recorded("check_reputation", {}, r.cache,
                        UsedByReputation(tiStore, tiHist.used, q.domains,
                                         q.ips, io, q.ios))
            /\ tiOp' = [NoOp EXCEPT !.name = "check_reputation",
                                    !.domains = q.domains, !.ips = q.ips,
                                    !.io = io, !.ios = q.ios,
                                    !.before = tiStore]
            /\ tiOut' = [NoReputation EXCEPT
                           !.raised = r.raised,
                           !.malicious_domains = r.malicious_domains,
                           !.malicious_ips = r.malicious_ips,
                           !.domain_in_urlhaus = r.domain_in_urlhaus,
                           !.domain_in_openphish = r.domain_in_openphish,
                           !.ip_in_blacklist = r.ip_in_blacklist]
            /\ tiStore' = [tiStore EXCEPT !.cache = r.cache]

CacheResults ==
    \E key \in CacheResultsKeys, result \in CacheResultsValues :
        /\ Recorded("cache_results", {},
                    cache_results(tiStore.cache, key, result), tiHist.used)
        /\ tiOp' = [NoOp EXCEPT !.name = "cache_results", !.key = key,
                                !.before = tiStore]
        /\ tiOut' = NoReputation
        /\ tiStore' = [tiStore EXCEPT !.cache = cache_results(@, key, result)]

ClearCache ==
    /\ Recorded("clear_cache", {}, <<>>, <<>>)
    /\ tiOp' = [NoOp EXCEPT !.name = "clear_cache", !.before = tiStore]
    /\ tiOut' = NoReputation
    /\ tiStore' = [tiStore EXCEPT !.cache = clear_cache(@)]

Close ==
    /\ Recorded("close", {}, tiStore.cache, tiHist.used)
    /\ tiOp' = [NoOp EXCEPT !.name = "close", !.before = tiStore]
    /\ tiOut' = NoReputation
    /\ tiStore' = close(tiStore)

UpdateFromUrlhaus ==
    \E feed \in UrlhausFeeds :
        LET r == update_from_urlhaus(tiStore, UrlhausRows(feed),
                                     tiHist.steps + 1)
        IN  /\ Recorded("update_from_urlhaus",
                        IF r.raised THEN {} ELSE {feed}, r.store.cache,
                        IF r.raised \/ UrlhausRows(feed) = <<>>
                        THEN tiHist.used ELSE <<>>)
            /\ tiOp' = [NoOp EXCEPT !.name = "update_from_urlhaus",
                                    !.feed = feed, !.before = tiStore,
                                    !.imported_before = tiHist.imported]
            /\ tiOut' = [NoReputation EXCEPT !.raised = r.raised]
            /\ tiStore' = r.store

UpdateFromOpenphish ==
    \E feed \in OpenphishFeeds :
        LET r == update_from_openphish(tiStore, OpenphishLines(feed),
                                       tiHist.steps + 1)
        IN  /\ Recorded("update_from_openphish",
                        IF r.raised THEN {} ELSE {feed}, r.store.cache,
                        IF r.raised THEN tiHist.used ELSE <<>>)
            /\ tiOp' = [NoOp EXCEPT !.name = "update_from_openphish",
                                    !.feed = feed, !.before = tiStore,
                                    !.imported_before = tiHist.imported]
            /\ tiOut' = [NoReputation EXCEPT !.raised = r.raised]
            /\ tiStore' = r.store

NextTI ==
    \/ CheckDomainReputation
    \/ CheckIpReputation
    \/ CheckDomainsBatch
    \/ CheckReputation
    \/ CacheResults
    \/ ClearCache
    \/ Close
    \/ UpdateFromUrlhaus
    \/ UpdateFromOpenphish

SpecTI == InitTI /\ [][NextTI]_vars

(***************************************************************************)
(* The classifier as a state machine: model files are loaded and feature   *)
(* vectors and matrices are classified, in any order.                      *)
(***************************************************************************)
\* how many operations are made on the classifier
MaxMLSteps == 3
\* how many rows a feature matrix has at most
MaxRows == 2

AnswerLists ==
    UNION {[1..n -> ModelAnswers] : n \in 1..MaxRows}

InitML ==
    /\ IdleCore
    /\ IdleML
    /\ IdleUrl
    /\ IdleMail
    /\ IdleFE
    /\ IdleBody
    /\ IdleIngest

RecordedML(name, out) ==
    /\ mlHist.steps < MaxMLSteps
    /\ mlOp' = [name |-> name, model_before |-> mlModel]
    /\ mlOut' = out
    /\ mlHist' = [steps |-> mlHist.steps + 1,
                  loaded |-> mlHist.loaded
                             \/ (name = "load_model"
                                 /\ out[1].outcome = "returned"),
                  refused |-> mlHist.refused
                              \/ out[1].outcome = "ModelNotLoaded"]
    /\ UNCHANGED <<coreVars, urlVars, mailVars, feVars, bodyVars,
                 ingVars>>

LoadModel ==
    \E file \in ModelFiles :
        LET r == load_model(mlModel, file)
        IN  /\ RecordedML("load_model",
                          <<[NoPrediction EXCEPT
                               !.outcome = IF r.raised THEN "LoadError"
                                           ELSE "returned"]>>)
            /\ mlModel' = r.model

ClassifyFeatureVector ==
    \E fits \in BOOLEAN, answers \in AnswerLists :
        /\ RecordedML("classify_feature_vector",
                      <<classify_feature_vector(mlModel, fits, answers)>>)
        /\ UNCHANGED mlModel

ClassifyFeatureMatrix ==
    \E fits \in BOOLEAN, answers \in AnswerLists :
        /\ RecordedML("classify_feature_matrix",
                      classify_feature_matrix(mlModel, fits, answers))
        /\ UNCHANGED mlModel

NextML ==
    \/ LoadModel
    \/ ClassifyFeatureVector
    \/ ClassifyFeatureMatrix

SpecML == InitML /\ [][NextML]_vars

(***************************************************************************)
(* detect_ip_in_url applied to the URLs of the model.                      *)
(***************************************************************************)
\* the numbers the quads of the model are made of: both sides of every
\* range limit, and one that is no octet
FirstNumbers == {8, 10, 172, 192, 999}
SecondNumbers == {0, 16, 31, 32, 168}
Quads == {<<a, b, 0, 1>> : a \in FirstNumbers, b \in SecondNumbers}

Urls ==
    [host : {NameToken} \cup {QuadToken(q) : q \in Quads},
     path : {NoToken, NameToken} \cup {QuadToken(q) : q \in Quads}]

InitUrl ==
    /\ IdleCore
    /\ IdleML
    /\ urlIn \in Urls
    /\ urlOut = NoDetection
    /\ IdleMail
    /\ IdleFE
    /\ IdleBody
    /\ IdleIngest

DetectIpInUrl ==
    /\ urlOut' = detect_ip_in_url(urlIn)
    /\ UNCHANGED <<urlIn, coreVars, mlVars, mailVars, feVars, bodyVars,
                 ingVars>>

NextUrl == DetectIpInUrl

SpecUrl == InitUrl /\ [][NextUrl]_vars

(***************************************************************************)
(* extract_domains applied to the messages of the model.                   *)
(***************************************************************************)
Mails ==
    [url_host : HostStrings \cup {""}, from_host : HostStrings \cup {""},
     received_host : HostStrings \cup {""}]

InitMail ==
    /\ IdleCore
    /\ IdleML
    /\ IdleUrl
    /\ mailIn \in Mails
    /\ mailOut = NoExtraction
    /\ IdleFE
    /\ IdleBody
    /\ IdleIngest

ExtractDomains ==
    /\ mailOut' = extract_domains(mailIn)
    /\ UNCHANGED <<mailIn, coreVars, mlVars, urlVars, feVars, bodyVars,
                 ingVars>>

NextMail == ExtractDomains

SpecMail == InitMail /\ [][NextMail]_vars

(***************************************************************************)
(* The feature extractors as a state machine: a training extractor and an  *)
(* analysing extractor are fitted, saved, loaded and used, in any order.   *)
(***************************************************************************)
\* how many operations are made on the extractors
MaxFESteps == 5

ExtractorNames == {"trainer", "analyser"}
Corpora == {"empty_list", "no_terms", "vocabulary_a", "vocabulary_b"}
FeatureLists == {"empty_list", "ranges_a"}
Texts == {"", "verify your account"}

InitFE ==
    /\ IdleCore
    /\ IdleML
    /\ IdleUrl
    /\ IdleMail
    /\ feState \in {NoExtractors, [NoExtractors EXCEPT !.file = LegacyFile]}
    /\ feOp = NoFEOp
    /\ feOut = NoFeatures
    /\ IdleBody
    /\ IdleIngest

RecordedFE(name, on, out) ==
    /\ feOp.steps < MaxFESteps
    /\ feOp' = [name |-> name, on |-> on, steps |-> feOp.steps + 1]
    /\ feOut' = out
    /\ UNCHANGED <<coreVars, mlVars, urlVars, mailVars, bodyVars, ingVars>>

FitVectorizer ==
    \E on \in ExtractorNames, texts \in Corpora :
        LET r == fit_vectorizer(feState.ex[on], texts)
        IN  /\ RecordedFE("fit_vectorizer", on, r.out)
            /\ feState' = [feState EXCEPT
                             !.ex[on] = r.ex,
                             !.prepared[on] = @ \/ r.out.outcome = "returned"]

FitScaler ==
    \E on \in ExtractorNames, synthetic_features_list \in FeatureLists :
        LET r == fit_scaler(feState.ex[on], synthetic_features_list)
        IN  /\ RecordedFE("fit_scaler", on, r.out)
            /\ feState' = [feState EXCEPT !.ex[on] = r.ex]

VectorizeText ==
    \E on \in ExtractorNames, text \in Texts :
        /\ RecordedFE("vectorize_text", on,
                      vectorize_text(feState.ex[on], text))
        /\ UNCHANGED feState

ExtractAllFeatures ==
    \E on \in ExtractorNames, text \in Texts :
        /\ RecordedFE("extract_all_features", on,
                      extract_all_features(feState.ex[on], text, "features"))
        /\ UNCHANGED feState

SaveVectorizer ==
    \E on \in ExtractorNames :
        LET r == save_vectorizer(feState.ex[on], feState.file)
        IN  /\ RecordedFE("save_vectorizer", on, r.out)
            /\ feState' = [feState EXCEPT
                             !.file = r.file,
                             !.saved = IF r.out.outcome = "returned"
                                       THEN feState.ex[on] ELSE @,
                             !.saved_by = IF r.out.outcome = "returned"
                                          THEN on ELSE @]

LoadVectorizer ==
    \E on \in ExtractorNames :
        LET r == load_vectorizer(feState.ex[on], feState.file)
        IN  /\ RecordedFE("load_vectorizer", on, r.out)
            /\ feState' = [feState EXCEPT
                             !.ex[on] = r.ex,
                             !.prepared[on] = @ \/ r.out.outcome = "returned",
                             !.loaded[on] =
                                 @ \/ (r.out.outcome = "returned"
                                       /\ feState.saved_by # "none")]

NextFE ==
    \/ FitVectorizer
    \/ FitScaler
    \/ VectorizeText
    \/ ExtractAllFeatures
    \/ SaveVectorizer
    \/ LoadVectorizer

SpecFE == InitFE /\ [][NextFE]_vars

(***************************************************************************)
(* Properties of the aggregator.                                           *)
(***************************************************************************)
(* extract_body on the parsed messages of the model.                       *)
(***************************************************************************)
\* how many body parts a message has at most
MaxParts == 2

BodyParts == [content_type : ContentTypes, content : Contents]

RECURSIVE SeqsUpTo(_, _)
SeqsUpTo(S, n) ==
    IF n = 0 THEN {<<>>}
    ELSE SeqsUpTo(S, n - 1)
         \cup {Append(q, x) : q \in SeqsUpTo(S, n - 1), x \in S}

ParsedBodies ==
    [format : {"list", "dict"}, body : SeqsUpTo(BodyParts, MaxParts),
     raw_body : {<<>>, <<"raw text">>}]

InitBody ==
    /\ IdleCore
    /\ IdleML
    /\ IdleUrl
    /\ IdleMail
    /\ IdleFE
    /\ IdleIngest
    /\ bodyIn \in ParsedBodies
    /\ bodyOut = NoBody

ExtractBody ==
    /\ ~bodyOut.done
    /\ bodyOut' = [done |-> TRUE, text |-> extract_body(bodyIn).text,
                   html |-> extract_body(bodyIn).html]
    /\ UNCHANGED <<bodyIn, coreVars, mlVars, urlVars, mailVars, feVars,
                   ingVars>>

NextBody == ExtractBody

SpecBody == InitBody /\ [][NextBody]_vars

(***************************************************************************)
(* The ingestion of a feed into one store, statement by statement, the     *)
(* process being interrupted at any point, and, in SpecConcurrent, a       *)
(* lookup thread that works on the same store.                             *)
(***************************************************************************)
\* how many ingestions and how many lookups are started
MaxRuns == 2
MaxLookups == 2

IngestFeeds ==
    {[kind |-> "urlhaus", feed |-> "urlhaus_empty"],
     [kind |-> "urlhaus", feed |-> "urlhaus_long"],
     [kind |-> "urlhaus", feed |-> "urlhaus_short_row"],
     [kind |-> "openphish", feed |-> "openphish_feed"]}

RECURSIVE AsRows(_)
AsRows(lines) ==
    IF lines = <<>> THEN <<>>
    ELSE <<[url |-> Head(lines), threat |-> "phishing"]>> \o AsRows(Tail(lines))

\* the rows of a feed file
FeedRows(f) ==
    IF f.kind = "urlhaus" THEN UrlhausRows(f.feed)
    ELSE AsRows(OpenphishLines(f.feed))

\* the store is one a lookup of bank.ru may have been made on
InitIngest ==
    /\ IdleCore
    /\ IdleML
    /\ IdleUrl
    /\ IdleMail
    /\ IdleFE
    /\ IdleBody
    /\ ingStore \in
          {EmptyStore,
           [EmptyStore EXCEPT
              !.cache = <<[key |-> <<"domain", "bank.ru">>, rep |-> Clean]>>]}
    /\ ingDisk = NoTables
    /\ ing = NoIngestion
    /\ look = NoLookup
    /\ ingHist = NoIngestHistory

IngestUnderWay == ing.pc \in {"rows", "commit", "clear"}

IngestFrame ==
    UNCHANGED <<coreVars, mlVars, urlVars, mailVars, feVars, bodyVars>>

\* the ingestion raises: nothing is rolled back and the cache is left alone
Abort ==
    /\ ing' = [ing EXCEPT !.pc = "aborted"]
    /\ ingHist' = [ingHist EXCEPT !.aborted = @ \cup {ing.date_added}]
    /\ UNCHANGED <<ingStore, ingDisk>>

\* update_from_urlhaus / update_from_openphish is called: the cursor is
\* made and the file is opened; a URLhaus file with no data line returns
IngestBegin ==
    /\ ing.pc \in {"idle", "done", "aborted", "interrupted"}
    /\ ingHist.runs < MaxRuns
    /\ \E f \in IngestFeeds :
          /\ ing' = [NoIngestion EXCEPT
                       !.pc = IF f.kind = "urlhaus" /\ FeedRows(f) = <<>>
                              THEN "done" ELSE "rows",
                       !.kind = f.kind, !.feed = f.feed,
                       !.rest = FeedRows(f),
                       !.date_added = ingHist.runs + 1]
          /\ ingHist' = [ingHist EXCEPT
                           !.runs = @ + 1, !.start = ingStore,
                           !.flushed = {},
                           !.interleaved = @ \/ look.pc # "idle"]
    /\ UNCHANGED <<ingStore, ingDisk, look>>
    /\ IngestFrame

\* one turn of the loop over the rows: the row is read and added to its
\* batch, and a batch of BATCH_SIZE rows is written with executemany
IngestRow ==
    /\ ing.pc = "rows"
    /\ ing.rest # <<>>
    /\ LET r == RowResult(ing.kind, Head(ing.rest), ing.date_added)
           domains_batch == IF r.data_type = "domain"
                            THEN Append(ing.domains_batch, r.new)
                            ELSE ing.domains_batch
           ips_batch == IF r.data_type = "ip"
                        THEN Append(ing.ips_batch, r.new)
                        ELSE ing.ips_batch
           flush_domains == Len(domains_batch) >= BATCH_SIZE
           flush_ips == Len(ips_batch) >= BATCH_SIZE
       IN  \E io \in IOOutcomes :
             /\ io = "error" => (flush_domains \/ flush_ips) /\ ~r.raised
             /\ IF r.raised \/ io = "error"
                THEN Abort
                ELSE
                  /\ ing' = [ing EXCEPT
                               !.rest = Tail(@),
                               !.domains_batch = IF flush_domains THEN <<>>
                                                 ELSE domains_batch,
                               !.ips_batch = IF flush_ips THEN <<>>
                                             ELSE ips_batch]
                  /\ ingStore' =
                       [ingStore EXCEPT
                          !.malicious_domains =
                              IF flush_domains
                              THEN ExecuteMany(@, domains_batch) ELSE @,
                          !.malicious_ips =
                              IF flush_ips
                              THEN ExecuteMany(@, ips_batch) ELSE @]
                  /\ ingHist' =
                       [ingHist EXCEPT
                          !.flushed =
                              @ \cup (IF flush_domains
                                      THEN {domains_batch[i] :
                                              i \in 1..Len(domains_batch)}
                                      ELSE {})
                                \cup (IF flush_ips
                                      THEN {ips_batch[i] :
                                              i \in 1..Len(ips_batch)}
                                      ELSE {})]
                  /\ UNCHANGED ingDisk
    /\ UNCHANGED look
    /\ IngestFrame

\* after the loop: the batches that are left are written with executemany
IngestFinal ==
    /\ ing.pc = "rows"
    /\ ing.rest = <<>>
    /\ \E io \in IOOutcomes :
          /\ io = "error" => (ing.domains_batch # <<>> \/ ing.ips_batch # <<>>)
          /\ IF io = "error"
             THEN Abort
             ELSE
               /\ ing' = [ing EXCEPT !.pc = "commit",
                                     !.domains_batch = <<>>,
                                     !.ips_batch = <<>>]
               /\ ingStore' =
                    [ingStore EXCEPT
                       !.malicious_domains = ExecuteMany(@, ing.domains_batch),
                       !.malicious_ips = ExecuteMany(@, ing.ips_batch)]
               /\ UNCHANGED <<ingDisk, ingHist>>
    /\ UNCHANGED look
    /\ IngestFrame

\* ti_instance.conn.commit()
IngestCommit ==
    /\ ing.pc = "commit"
    /\ \E io \in IOOutcomes :
          IF io = "error"
          THEN Abort
          ELSE /\ ing' = [ing EXCEPT !.pc = "clear"]
               /\ ingDisk' = TablesOf(ingStore)
               /\ UNCHANGED <<ingStore, ingHist>>
    /\ UNCHANGED look
    /\ IngestFrame

\* ti_instance.cache.clear(), and the function returns
IngestClear ==
    /\ ing.pc = "clear"
    /\ ing' = [ing EXCEPT !.pc = "done"]
    /\ ingStore' = [ingStore EXCEPT !.cache = clear_cache(@)]
    /\ UNCHANGED <<ingDisk, ingHist, look>>
    /\ IngestFrame

\* the process is stopped while the ingestion is under way: the open
\* transaction is lost, and the store is opened again from the database file
Interrupt ==
    /\ IngestUnderWay
    /\ ing' = [ing EXCEPT !.pc = "interrupted"]
    /\ ingStore' = [EmptyStore EXCEPT
                      !.malicious_domains = ingDisk.malicious_domains,
                      !.malicious_ips = ingDisk.malicious_ips]
    /\ look' = NoLookup
    /\ UNCHANGED <<ingDisk, ingHist>>
    /\ IngestFrame

NextIngest ==
    \/ IngestBegin
    \/ IngestRow
    \/ IngestFinal
    \/ IngestCommit
    \/ IngestClear
    \/ Interrupt

SpecIngest == InitIngest /\ [][NextIngest]_vars

\* the indicators the lookup thread asks about
ConcurrentKeys == {<<"domain", "evil.tk">>, <<"ip", "6.6.6.6">>}

LookupStep ==
    /\ ingHist' = [ingHist EXCEPT
                     !.interleaved = @ \/ IngestUnderWay,
                     !.lookups = IF look.pc = "idle" THEN @ + 1 ELSE @]
    /\ UNCHANGED <<ingDisk, ing>>
    /\ IngestFrame

\* check_domain_reputation / check_ip_reputation, lines 86-89 and 123-126:
\* the cache is consulted, and a hit is promoted and returned
LookupCache ==
    /\ look.pc = "idle"
    /\ ingHist.lookups < MaxLookups
    /\ \E key \in ConcurrentKeys :
          IF key \in CacheKeys(ingStore.cache)
          THEN /\ ingStore' = [ingStore EXCEPT !.cache = MoveToEnd(@, key)]
               /\ look' = [NoLookup EXCEPT !.key = key]
          ELSE /\ look' = [NoLookup EXCEPT !.pc = "select", !.key = key]
               /\ UNCHANGED ingStore
    /\ LookupStep

\* lines 91-107 and 128-144: the SELECT on the connection
LookupSelect ==
    /\ look.pc = "select"
    /\ look' = [look EXCEPT
                  !.pc = "store",
                  !.reputation =
                      IF look.key[1] = "domain"
                      THEN Lookup(ingStore.malicious_domains, look.key[2])
                      ELSE Lookup(ingStore.malicious_ips, look.key[2])]
    /\ UNCHANGED ingStore
    /\ LookupStep

\* lines 110-114 and 146-150: the result is put into the cache
LookupStore ==
    /\ look.pc = "store"
    /\ ingStore' = [ingStore EXCEPT
                      !.cache = CacheInsert(@, look.key, look.reputation,
                                            ingStore.max_cache_size)]
    /\ look' = [look EXCEPT !.pc = "idle"]
    /\ LookupStep

NextConcurrent ==
    \/ NextIngest
    \/ LookupCache
    \/ LookupSelect
    \/ LookupStore

SpecConcurrent == InitIngest /\ [][NextConcurrent]_vars

(***************************************************************************)
Returned == aggOut.outcome = "returned"

\* the file is a JSON object all of whose values float() accepts
WellFormedFile(file) ==
    /\ file.kind = "object"
    /\ file.w_rules.k # "str"
    /\ file.w_ml.k # "str"
    /\ file.threshold.k # "str"

\* the file is unreadable or malformed
MalformedFile(file) ==
    \/ file.kind \in {"missing", "notjson", "notobject"}
    \/ file.kind = "object" /\ ~WellFormedFile(file)

\* what the caller configured: the file's value of a key, else the value of
\* the configuration object in use
Configured(key) ==
    LET base == ConfigUsed(aggIn, aggOut.called_with)
    IN  IF WellFormedFile(aggIn.file) /\ aggIn.file[key].k = "num"
        THEN aggIn.file[key] ELSE base[key]

InUnit(x) == FGe(x, Zero) /\ FGe(One, x)

\* C1: the returned final_verdict is 1 exactly when the returned final_score
\* is >= the configured threshold, and 0 otherwise.
C1_VerdictIffThreshold ==
    Returned =>
        /\ aggOut.final_verdict \in {0, 1}
        /\ aggOut.final_verdict = 1 <=>
               FGe(aggOut.final_score, aggOut.aggregation.threshold)
        /\ ~MalformedFile(aggIn.file) =>
               aggOut.aggregation.threshold = Configured("threshold")

\* C1 witness: a call whose final_score equals the threshold returns verdict 1
\* (and the call below the threshold, verdict 0, is C4's example).
C1_Witness ==
    /\ Returned
    /\ aggOut.final_score = aggOut.aggregation.threshold
    /\ aggOut.final_verdict = 1

\* C2: with the other inputs and the configuration fixed, a larger
\* risk_score never gives a smaller final_score, and a larger
\* phishing_probability never gives a smaller final_score.
C2_ScoreMonotone ==
    Returned =>
        /\ \A r \in RulesResults :
               LET other == AggregateResult([aggIn EXCEPT !.rules_result = r],
                                            aggOut.called_with)
               IN  (/\ RiskScoreOf(aggIn.rules_result).k = "num"
                    /\ RiskScoreOf(r).k = "num"
                    /\ FGe(RiskScoreOf(r), RiskScoreOf(aggIn.rules_result))
                    /\ other.outcome = "returned")
                   => ~FLt(other.final_score, aggOut.final_score)
        /\ \A m \in MLResults :
               LET other == AggregateResult([aggIn EXCEPT !.ml_result = m],
                                            aggOut.called_with)
               IN  (/\ aggIn.ml_result.phishing_probability.k = "num"
                    /\ m.phishing_probability.k = "num"
                    /\ FGe(m.phishing_probability,
                           aggIn.ml_result.phishing_probability)
                    /\ other.outcome = "returned")
                   => ~FLt(other.final_score, aggOut.final_score)

\* C3: whenever the configured w_ml + w_rules is > 0 and differs from 1, the
\* weights used and reported sum to 1 (each configured weight divided by the
\* sum), whether they come from the weights file or the configuration object.
C3_Renormalised ==
    (Returned /\ ~MalformedFile(aggIn.file)) =>
        LET s == FAdd(Configured("w_ml"), Configured("w_rules"))
        IN  (FLt(Zero, s) /\ s # One) =>
                /\ FAdd(aggOut.aggregation.w_ml, aggOut.aggregation.w_rules) = One
                /\ aggOut.aggregation.w_ml = FDiv(Configured("w_ml"), s)
                /\ aggOut.aggregation.w_rules = FDiv(Configured("w_rules"), s)

\* the default weights and threshold are the ones in effect
DefaultsInEffect ==
    /\ aggOut.aggregation.w_ml = Num(7, 10)
    /\ aggOut.aggregation.w_rules = Num(3, 10)
    /\ aggOut.aggregation.threshold = Num(1, 2)

\* C4: final_score = clamp(w_ml*ml_confidence + w_rules*risk_norm, 0, 1) with
\* ml_confidence = clamp(phishing_probability, 0, 1) and risk_norm =
\* clamp(risk_score/100, 0, 1), so final_score is always in [0,1]; with the
\* default weights 0.49 and risk 0 give 0.343 and verdict 0, and risk 100
\* gives 0.643 and verdict 1.
C4_FinalScore ==
    Returned =>
        LET a == aggOut.aggregation
            pp == aggIn.ml_result.phishing_probability
            rs == RiskScoreOf(aggIn.rules_result)
        IN  /\ a.final_score =
                   clamp01(FAdd(FMul(a.w_ml, a.ml_confidence),
                                FMul(a.w_rules, a.risk_norm)))
            /\ IsFloat(pp) => a.ml_confidence = clamp01(pp)
            /\ IsFloat(rs) => a.risk_norm = clamp01(FDiv(rs, Num(100, 1)))
            /\ InUnit(aggOut.final_score)
            /\ (DefaultsInEffect /\ pp = Num(49, 100) /\ rs = Zero) =>
                   (aggOut.final_score = Num(343, 1000) /\ aggOut.final_verdict = 0)
            /\ (DefaultsInEffect /\ pp = Num(49, 100) /\ rs = Num(100, 1)) =>
                   (aggOut.final_score = Num(643, 1000) /\ aggOut.final_verdict = 1)

\* C5: a call without a configuration object whose weights file is missing,
\* not JSON, not an object or holds a value that is not a number uses the
\* defaults 0.7, 0.3 and 0.5.
C5_MalformedFileGivesDefaults ==
    (Returned /\ ~aggIn.use_config /\ MalformedFile(aggIn.file)) =>
        DefaultsInEffect

\* C6: every call returns a report, whatever phishing_probability and
\* risk_score hold, and the reported ml_confidence, risk_norm and final_score
\* are in [0,1].
C6_NeverFatal ==
    aggOut.outcome # "none" =>
        /\ Returned
        /\ InUnit(aggOut.aggregation.ml_confidence)
        /\ InUnit(aggOut.aggregation.risk_norm)
        /\ InUnit(aggOut.final_score)

\* The cases of C2..C6 in which the code does what the claims say.
\* C2 for configurations whose weights in effect are not negative
Lemma_MonotoneNonNegativeWeights ==
    (/\ FGe(aggOut.aggregation.w_ml, Zero)
     /\ FGe(aggOut.aggregation.w_rules, Zero)) => C2_ScoreMonotone

\* C3 for weights that come from a well-formed weights file
Lemma_FileRenormalised == WellFormedFile(aggIn.file) => C3_Renormalised

\* C4 and C6 for inputs that are not nan
Lemma_FiniteInputsInUnit ==
    (/\ Returned
     /\ aggIn.ml_result.phishing_probability.k # "nan"
     /\ RiskScoreOf(aggIn.rules_result).k # "nan") =>
        (C4_FinalScore /\ C6_NeverFatal)

\* C5 for files that fail before the first assignment
Lemma_UnreadableFileGivesDefaults ==
    (\/ aggIn.file.kind \in {"missing", "notjson", "notobject"}
     \/ aggIn.file.kind = "object" /\ aggIn.file.w_rules.k = "str") =>
        C5_MalformedFileGivesDefaults

(***************************************************************************)
(* Properties of the rule engine.                                          *)
(***************************************************************************)
RulesReturned == ruleOut.outcome = "returned"

ScoreIfTriggered(result) == IF result.triggered THEN result.score ELSE 0

\* the sum of the scores of the rules that rule_details reports triggered
DetailsTotal(rule_details) ==
    ScoreIfTriggered(rule_details.authentication)
    + ScoreIfTriggered(rule_details.domain_mismatch)
    + ScoreIfTriggered(rule_details.reply_anomaly)
    + ScoreIfTriggered(rule_details.threat_intelligence)
    + ScoreIfTriggered(rule_details.dangerous_attachments)
    + ScoreIfTriggered(rule_details.url_characteristics)

\* C7: the risk_score returned equals min(100, sum of the weights of the
\* triggered rules) and lies in 0..100.
C7_RiskScoreCapped ==
    RulesReturned =>
        LET total == DetailsTotal(ruleOut.rule_details)
        IN  /\ ruleOut.risk_score = IF total < 100 THEN total ELSE 100
            /\ ruleOut.risk_score >= 0
            /\ ruleOut.risk_score <= 100

\* C7 witness: the triggered weights sum to more than 100 and the score is 100
C7_Witness ==
    /\ RulesReturned
    /\ DetailsTotal(ruleOut.rule_details) > 100
    /\ ruleOut.risk_score = 100

Classified == levelOut # "none"

\* C8 as stated: LOW below 30, MEDIUM from 30 to 69, HIGH from 70 on.
C8_Original ==
    Classified =>
        /\ levelIn < 30 => levelOut = "LOW"
        /\ (30 <= levelIn /\ levelIn <= 69) => levelOut = "MEDIUM"
        /\ levelIn >= 70 => levelOut = "HIGH"

\* C8 amended: LOW below 30, MEDIUM from 30 to 70 inclusive, HIGH above 70;
\* 29 is LOW, 30, 69 and 70 are MEDIUM and 71 is HIGH.
C8_RiskLevel ==
    Classified =>
        /\ levelIn < 30 => levelOut = "LOW"
        /\ (30 <= levelIn /\ levelIn <= 70) => levelOut = "MEDIUM"
        /\ levelIn > 70 => levelOut = "HIGH"
        /\ levelIn = 29 => levelOut = "LOW"
        /\ levelIn \in {30, 69, 70} => levelOut = "MEDIUM"
        /\ levelIn = 71 => levelOut = "HIGH"

\* C8 witness: the score 70 has been classified, as MEDIUM
C8_Witness == levelIn = 70 /\ levelOut = "MEDIUM"

\* C9: evaluate_all_rules returns a result for every input, and a rule whose
\* input is missing (no TI store, no attachments) is reported with
\* triggered = false and details that say so.
C9_NeverRaises ==
    ruleOut.outcome # "none" =>
        /\ RulesReturned
        /\ ~ruleIn.ti_module =>
               /\ ~ruleOut.rule_details.threat_intelligence.triggered
               /\ ruleOut.rule_details.threat_intelligence.details
                      = <<"TI module not available">>
        /\ ruleIn.parsed_email.attachments_metadata = <<>> =>
               /\ ~ruleOut.rule_details.dangerous_attachments.triggered
               /\ ruleOut.rule_details.dangerous_attachments.details
                      = <<"No attachments found">>

\* C9 holds of every message that has no URL or no TI store
Lemma_NoUrlNeverRaises ==
    (\/ ~ruleIn.ti_module
     \/ \A i \in 1..Len(ruleIn.parsed_email.urls) :
            ruleIn.parsed_email.urls[i] = "") => C9_NeverRaises

Fails(str) == str \in {"fail", "FAIL"}

Count(cond) == IF cond THEN 1 ELSE 0

\* the Reply-To or Return-Path domain differs from the From domain
Mismatch(h) ==
    /\ h.from_domain # ""
    /\ \/ h.reply_to_domain # "" /\ h.reply_to_domain # h.from_domain
       \/ h.return_path_domain # "" /\ h.return_path_domain # h.from_domain

\* the rule table of a claim applied to the facts of the message: what each
\* fixed-weight rule contributes
FixedWeightsAre(spf, dkim, dmarc, mismatch, reply, attachment) ==
    LET h == ruleIn.header_analysis
        d == ruleOut.rule_details
    IN  /\ d.authentication.score =
               spf * Count(Fails(h.spf_result))
               + dkim * Count(Fails(h.dkim_result))
               + dmarc * Count(Fails(h.dmarc_result))
        /\ d.authentication.triggered <=>
               (Fails(h.spf_result) \/ Fails(h.dkim_result)
                \/ Fails(h.dmarc_result))
        /\ d.domain_mismatch.triggered <=> Mismatch(h)
        /\ d.domain_mismatch.score = mismatch * Count(Mismatch(h))
        /\ d.reply_anomaly.triggered <=> h.has_re_without_references
        /\ d.reply_anomaly.score = reply * Count(h.has_re_without_references)
        /\ d.dangerous_attachments.score =
               attachment * Count(d.dangerous_attachments.triggered)

\* SPF, DKIM and DMARC all fail, Reply-To differs from From, and no other
\* rule triggers
TripleFailAndReplyToMismatch ==
    LET h == ruleIn.header_analysis
        d == ruleOut.rule_details
    IN  /\ RulesReturned
        /\ Fails(h.spf_result) /\ Fails(h.dkim_result) /\ Fails(h.dmarc_result)
        /\ h.from_domain # "" /\ h.reply_to_domain # ""
        /\ h.from_domain # h.reply_to_domain
        /\ ~d.reply_anomaly.triggered
        /\ ~d.threat_intelligence.triggered
        /\ ~d.dangerous_attachments.triggered
        /\ ~d.url_characteristics.triggered

ScenarioGives(auth, mismatch, score, level) ==
    TripleFailAndReplyToMismatch =>
        /\ ruleOut.triggered_rules =
               <<[rule |-> "authentication", weight |-> auth],
                 [rule |-> "domain_mismatch", weight |-> mismatch]>>
        /\ ruleOut.risk_score = score
        /\ ruleOut.risk_level = level

\* C10 as stated: SPF, DKIM and DMARC 20 each, domain_mismatch 30,
\* reply_anomaly 30, dangerous_attachments 40; the triple fail with a Reply-To
\* mismatch gives authentication 60, domain_mismatch 30, score 90, HIGH.
C10_Original ==
    RulesReturned =>
        /\ FixedWeightsAre(20, 20, 20, 30, 30, 40)
        /\ ScenarioGives(60, 30, 90, "HIGH")

\* C10 amended: SPF 15, DKIM 15 and DMARC 10 (summed), domain_mismatch 20,
\* reply_anomaly 10, dangerous_attachments 20; the triple fail with a
\* Reply-To mismatch gives authentication 40, domain_mismatch 20, score 60,
\* MEDIUM.
C10_FixedWeights ==
    RulesReturned =>
        /\ FixedWeightsAre(15, 15, 10, 20, 10, 20)
        /\ ScenarioGives(40, 20, 60, "MEDIUM")

\* C10 witness: the scenario has been evaluated and scored 60
C10_Witness ==
    /\ TripleFailAndReplyToMismatch
    /\ ruleOut.risk_score = 60

(***************************************************************************)
(* Properties of the threat_intelligence rule.                             *)
(***************************************************************************)
\* the registrable domains of the message that the store lists
MaliciousDomainsOf(in, store) ==
    {normalize_domain_for_ti(in.parsed_email.domains[i]) :
        i \in {j \in 1..Len(in.parsed_email.domains) :
                 /\ in.parsed_email.domains[j] # ""
                 /\ Lookup(store.malicious_domains,
                           normalize_domain_for_ti(
                               in.parsed_email.domains[j])).found}}

\* the IPs of the message that the store lists
MaliciousIpsOf(in, store) ==
    {in.parsed_email.ips[i] :
        i \in {j \in 1..Len(in.parsed_email.ips) :
                 /\ in.parsed_email.ips[j] # ""
                 /\ Lookup(store.malicious_ips, in.parsed_email.ips[j]).found}}

\* C11: with a TI store present, the threat_intelligence rule triggers
\* exactly when a domain or an IP of the message is in the store, and its
\* weight is 60 for each unique malicious domain plus 60 for each unique
\* malicious IP and nothing else
C11_TIRuleWeight ==
    (ruleOut.outcome # "none" /\ ruleIn.ti_module) =>
        LET md == MaliciousDomainsOf(ruleIn, tiStore)
            mi == MaliciousIpsOf(ruleIn, tiStore)
            ti == ruleOut.rule_details.threat_intelligence
        IN  /\ ruleOut.outcome = "returned"
            /\ ti.triggered <=> (md \cup mi # {})
            /\ ti.score = 60 * Cardinality(md) + 60 * Cardinality(mi)

\* what the code does when it returns: 25 for every list entry found, so
\* two hosts of one registrable domain count twice
Lemma_TIRuleWeightPerEntry ==
    (ruleOut.outcome = "returned" /\ ruleIn.ti_module) =>
        LET ds == ruleIn.parsed_email.domains
            is == ruleIn.parsed_email.ips
            nd == Cardinality(
                      {j \in 1..Len(ds) :
                          /\ ds[j] # ""
                          /\ Lookup(tiStore.malicious_domains,
                                    normalize_domain_for_ti(ds[j])).found})
            ni == Cardinality(
                      {j \in 1..Len(is) :
                          /\ is[j] # ""
                          /\ Lookup(tiStore.malicious_ips, is[j]).found})
            ti == ruleOut.rule_details.threat_intelligence
        IN  /\ ti.triggered <=> (nd + ni > 0)
            /\ ti.score = 25 * nd + 25 * ni

(***************************************************************************)
(* Properties of the threat-intelligence store.                            *)
(***************************************************************************)
\* C12: after any sequence of operations on a store the in-memory cache
\* holds at most max_cache_size entries
C12_CacheBounded ==
    Len(tiStore.cache) <= tiStore.max_cache_size

\* the bound holds as long as cache_results is not among the operations
Lemma_LookupsKeepCacheBounded ==
    ~tiHist.cache_results_used => Len(tiStore.cache) <= tiStore.max_cache_size

\* the cache holds no not-found result for a key that is in the tables
NoStaleNegative(store) ==
    \A i \in 1..Len(store.cache) :
        LET e == store.cache[i]
        IN  /\ e.key[1] = "domain" =>
                 (Lookup(store.malicious_domains, e.key[2]).found
                      => e.rep.found)
            /\ e.key[1] = "ip" =>
                 (Lookup(store.malicious_ips, e.key[2]).found => e.rep.found)

Listed(seq) == {seq[i] : i \in 1..Len(seq)}

\* the domains and IPs of the last check_reputation call that the tables
\* hold
QueriedDomainsInStore ==
    {d \in Listed(tiOp.domains) \ {""} :
        Lookup(tiStore.malicious_domains, normalize_domain_for_ti(d)).found}
QueriedIpsInStore ==
    {ip \in Listed(tiOp.ips) \ {""} : Lookup(tiStore.malicious_ips, ip).found}

\* the queries of the last call all succeeded
QueriesSucceeded ==
    /\ ~tiOut.raised
    /\ tiOp.io = "ok"
    /\ \A i \in 1..Len(tiOp.ios) : tiOp.ios[i] = "ok"

\* C13: in any sequence of lookups and imports on one store, after an
\* import the cache holds no not-found result for an indicator of the
\* tables, and a check_reputation whose queries succeed reports every
\* queried domain and IP of the tables as malicious
C13_NoStaleNegativeAfterImport ==
    ~tiHist.cache_results_used =>
        /\ NoStaleNegative(tiStore)
        /\ (tiOp.name = "check_reputation" /\ QueriesSucceeded) =>
              /\ QueriedDomainsInStore \subseteq Listed(tiOut.malicious_domains)
              /\ QueriedIpsInStore \subseteq Listed(tiOut.malicious_ips)

\* C13 witness: check_reputation reports an IP as malicious for which a
\* not-found result was cached before the import that inserted it
C13_Witness ==
    /\ ~tiHist.cache_results_used
    /\ tiOp.name = "check_reputation"
    /\ QueriesSucceeded
    /\ \E ip \in Listed(tiOut.malicious_ips) : <<"ip", ip>> \in tiHist.seen_clean

KeysUnique(table) == \A r1, r2 \in table : r1.key = r2.key => r1 = r2

ImportAgain ==
    /\ tiOp.name \in {"update_from_urlhaus", "update_from_openphish"}
    /\ tiOp.feed \in tiOp.imported_before
    /\ ~tiOut.raised

\* C14: importing a feed that was imported before leaves the number of
\* indicators of both tables as it was, and a key occurs at most once in a
\* table
C14_ReimportIdempotent ==
    /\ KeysUnique(tiStore.malicious_domains)
    /\ KeysUnique(tiStore.malicious_ips)
    /\ ImportAgain =>
          /\ Cardinality(tiStore.malicious_domains)
                 = Cardinality(tiOp.before.malicious_domains)
          /\ Cardinality(tiStore.malicious_ips)
                 = Cardinality(tiOp.before.malicious_ips)

\* C14 witness: a feed with domains and an IP has been imported a second
\* time
C14_Witness ==
    /\ ImportAgain
    /\ tiStore.malicious_domains # {}
    /\ tiStore.malicious_ips # {}

\* the sources of the queried domains that the tables hold
HitSources ==
    {Lookup(tiStore.malicious_domains, normalize_domain_for_ti(d)).source :
        d \in QueriedDomainsInStore}

\* the spellings that contain the feed's name, whatever the case
NamesUrlhaus == {"URLhaus", "urlhaus", "URLHAUS"}
NamesOpenphish == {"OpenPhish", "openphish", "OPENPHISH"}

CheckedReputation ==
    /\ ~tiHist.cache_results_used
    /\ tiOp.name = "check_reputation"
    /\ QueriesSucceeded

QueriesFailed ==
    /\ tiOp.before.conn = "open"
    /\ \/ /\ tiOp.name = "check_domain_reputation"
          /\ tiOp.domains # <<"">>
          /\ tiOp.io = "error"
          /\ <<"domain", normalize_domain_for_ti(tiOp.domains[1])>>
                 \notin CacheKeys(tiOp.before.cache)
       \/ /\ tiOp.name = "check_ip_reputation"
          /\ tiOp.io = "error"
          /\ <<"ip", tiOp.ips[1]>> \notin CacheKeys(tiOp.before.cache)
       \/ /\ tiOp.name = "check_domains_batch"
          /\ Listed(tiOp.domains) \ {""} # {}
          /\ tiOp.io = "error"
       \/ /\ tiOp.name = "check_reputation"
          /\ tiOp.io = "error"
          /\ \A i \in 1..Len(tiOp.ios) : tiOp.ios[i] = "error"
          /\ \A ip \in Listed(tiOp.ips) :
                 <<"ip", ip>> \notin CacheKeys(tiOp.before.cache)

Classifies ==
    mlOp.name \in {"classify_feature_vector", "classify_feature_matrix"}

HostIsPublicIPv4(url) ==
    /\ url.host.kind = "quad"
    /\ \A i \in 1..4 : url.host.quad[i] \in 0..255
    /\ url.host.quad[1] # 10
    /\ ~(url.host.quad[1] = 192 /\ url.host.quad[2] = 168)
    /\ ~(url.host.quad[1] = 172 /\ url.host.quad[2] \in 16..31)

\* C18: the IP-in-URL flag is raised for a URL exactly when the host of the
\* URL is a valid public IPv4 literal; private hosts and quads in the path
\* do not raise it
C18_IpInUrlIffPublicHost ==
    urlOut.outcome = "returned" =>
        (urlOut.has_ip <=> HostIsPublicIPv4(urlIn))

\* when the host is a dotted quad the flag is right
Lemma_QuadHostDetected ==
    (urlOut.outcome = "returned" /\ urlIn.host.kind = "quad") =>
        (urlOut.has_ip <=> HostIsPublicIPv4(urlIn))

(***************************************************************************)
(* Properties of the parser's domain extraction.                           *)
(***************************************************************************)
\* the strings that are an IPv4 dotted quad with every octet in 0..255
IPv4Literals == {"6.6.6.6"}
\* the strings that begin with "www."
WwwHosts == {"www.evil.tk"}

\* C19: every entry of ips is an IPv4 dotted quad with octets in 0..255, no
\* entry of domains begins with "www." or is an IPv4 literal, and a host
\* that is an IPv4 literal is in ips and not in domains, whichever part of
\* the message it comes from
C19_DomainsAndIpsWellFormed ==
    mailOut.outcome = "returned" =>
        /\ mailOut.ips \subseteq IPv4Literals
        /\ mailOut.domains \cap WwwHosts = {}
        /\ mailOut.domains \cap IPv4Literals = {}
        /\ \A h \in {mailIn.url_host, mailIn.from_host, mailIn.received_host} :
               h \in IPv4Literals => h \in mailOut.ips

\* what holds: the ips are valid, and the hosts of URLs are put right
Lemma_IpsValidAndUrlHostsClean ==
    mailOut.outcome = "returned" =>
        /\ mailOut.ips \subseteq IPv4Literals
        /\ (mailIn.from_host = "" /\ mailIn.received_host = "") =>
              /\ mailOut.domains \cap WwwHosts = {}
              /\ mailOut.domains \cap IPv4Literals = {}
              /\ mailIn.url_host \in IPv4Literals =>
                     mailIn.url_host \in mailOut.ips

(***************************************************************************)
(* Properties of the feature artefact.                                     *)
(***************************************************************************)
\* the file was written by save_vectorizer
WrittenBySave(file) ==
    file.exists /\ file.has_is_fitted /\ file.has_scaler
    /\ file.has_is_scaler_fitted

\* C20: an extractor that has loaded the artefact written by
\* save_vectorizer has the vectoriser, the scaler and both fit flags of the
\* extractor that saved it, and so vectorises and scales as that one did;
\* an extractor on which no fit_vectorizer and no load has succeeded
\* refuses vectorize_text, extract_all_features and save_vectorizer
C20_ArtefactRoundTrip ==
    /\ (feOp.name = "load_vectorizer" /\ feOut.outcome = "returned"
        /\ WrittenBySave(feState.file)) =>
           /\ feState.ex[feOp.on] = feState.saved
           /\ \A text \in Texts :
                 /\ vectorize_text(feState.ex[feOp.on], text)
                        = vectorize_text(feState.saved, text)
                 /\ extract_all_features(feState.ex[feOp.on], text, "features")
                        = extract_all_features(feState.saved, text, "features")
    /\ (feOp.name \in {"vectorize_text", "extract_all_features",
                       "save_vectorizer"}
        /\ ~feState.prepared[feOp.on]) =>
           feOut = Refused

\* C20 witness: the analyser has loaded the artefact of a trainer whose
\* vectoriser and scaler were fitted, and extracts features with it
C20_Witness ==
    /\ feOp.name = "extract_all_features"
    /\ feOp.on = "analyser"
    /\ feOut.outcome = "returned"
    /\ WrittenBySave(feState.file)
    /\ feState.saved_by = "trainer"
    /\ feState.loaded.analyser
    /\ feState.ex.analyser = feState.saved
    /\ feState.ex.analyser.is_scaler_fitted

(***************************************************************************)
(* Further properties of the threat-intelligence store: the LRU policy of  *)
(* its cache.                                                              *)
(***************************************************************************)
SingleLookup ==
    tiOp.name \in {"check_domain_reputation", "check_ip_reputation"}

\* the indicator of the last single-indicator lookup and its cache key
LookupIndicator ==
    IF tiOp.name = "check_domain_reputation"
    THEN tiOp.domains[1] ELSE tiOp.ips[1]

LookupKey ==
    IF tiOp.name = "check_domain_reputation"
    THEN <<"domain", normalize_domain_for_ti(tiOp.domains[1])>>
    ELSE <<"ip", tiOp.ips[1]>>

LookupInTables ==
    IF tiOp.name = "check_domain_reputation"
    THEN \E row \in tiOp.before.malicious_domains : row.key = LookupKey[2]
    ELSE \E row \in tiOp.before.malicious_ips : row.key = LookupKey[2]

CacheHit == LookupKey \in CacheKeys(tiOp.before.cache)

\* the last operation was a single-indicator lookup that was answered from
\* the cache or by a store query that succeeded
LookupAnswered ==
    /\ SingleLookup
    /\ LookupIndicator # ""
    /\ CacheHit \/ (tiOp.before.conn = "open" /\ tiOp.io = "ok")

KeysOf(c) == [i \in 1..Len(c) |-> c[i].key]

Others(c, key) == SelectSeq(c, LAMBDA e : e.key # key)

\* C21: a single-indicator lookup that hits the cache returns the cached
\* result and makes its entry the most recently used one, leaving the other
\* entries in their order; one that misses inserts its result, found or not
\* found, as the most recently used entry and, when the cache was full,
\* drops exactly the least recently used entry; so the cache holds, in order
\* of use, the max_cache_size most recently used keys
C21_LRU ==
    ~tiHist.cache_results_used =>
       /\ KeysOf(tiStore.cache)
              = MostRecent(tiHist.used, tiStore.max_cache_size)
       /\ LookupAnswered =>
            LET before == tiOp.before.cache
                after == tiStore.cache
            IN  /\ after # <<>>
                /\ after[Len(after)] = [key |-> LookupKey, rep |-> tiOut.rep]
                /\ CacheHit =>
                      /\ tiOut.rep = before[CacheValue(before, LookupKey)].rep
                      /\ Others(after, LookupKey) = Others(before, LookupKey)
                /\ ~CacheHit =>
                      /\ tiOut.rep.found <=> LookupInTables
                      /\ SubSeq(after, 1, Len(after) - 1)
                            = IF Len(before) >= tiStore.max_cache_size
                              THEN Tail(before) ELSE before

\* C21 witness: a lookup of an indicator that the tables do not hold has
\* missed a full cache, its not-found result is the newest entry and the
\* least recently used key is gone
C21_Witness ==
    /\ ~tiHist.cache_results_used
    /\ LookupAnswered
    /\ ~CacheHit
    /\ ~tiOut.rep.found
    /\ Len(tiOp.before.cache) = tiStore.max_cache_size
    /\ tiOp.before.cache[1].key \notin CacheKeys(tiStore.cache)
    /\ tiOp.before.cache[1].key = tiHist.used[Len(tiHist.used)
                                               - tiStore.max_cache_size]

\* the last operation was an import that returned normally
ImportCompleted ==
    /\ tiOp.name \in {"update_from_urlhaus", "update_from_openphish"}
    /\ ~tiOut.raised

\* C24: whenever update_from_urlhaus or update_from_openphish returns
\* normally, whatever the feed holds, the cache of the store is empty
C24_CacheEmptyAfterImport ==
    ImportCompleted => tiStore.cache = <<>>

\* the cache is empty after an import of a feed that has a data line
Lemma_CacheEmptyAfterDataImport ==
    (ImportCompleted /\ ~(tiOp.name = "update_from_urlhaus"
                            /\ UrlhausRows(tiOp.feed) = <<>>))
        => tiStore.cache = <<>>

\* the domains and IPs one may ask a store about
AskedDomains == DomainStrings \ {""}
AskedIps == IpStrings \ {""}

\* what the batch lookup and the single lookup would answer in this state
BatchListsDomain(d) ==
    d \in Listed(check_reputation(tiStore, <<d>>, <<>>, "ok", <<>>)
                     .malicious_domains)
SingleFindsDomain(d) == check_domain_reputation(tiStore, d, "ok").rep.found
BatchListsIp(ip) ==
    ip \in Listed(check_reputation(tiStore, <<>>, <<ip>>, "ok", <<"ok">>)
                      .malicious_ips)
SingleFindsIp(ip) == check_ip_reputation(tiStore, ip, "ok").rep.found

\* C28: in every reachable state of an open store, check_reputation lists a
\* domain (an IP) as malicious iff check_domain_reputation
\* (check_ip_reputation) of it returns found = true
C28_BatchAgreesWithSingle ==
    tiStore.conn = "open" =>
        /\ \A d \in AskedDomains : BatchListsDomain(d) <=> SingleFindsDomain(d)
        /\ \A ip \in AskedIps : BatchListsIp(ip) <=> SingleFindsIp(ip)

\* the two lookups agree as long as cache_results has not been called, and
\* they always agree on IPs
Lemma_BatchAgreesWithoutCacheResults ==
    tiStore.conn = "open" =>
        /\ ~tiHist.cache_results_used =>
              \A d \in AskedDomains :
                  BatchListsDomain(d) <=> SingleFindsDomain(d)
        /\ \A ip \in AskedIps : BatchListsIp(ip) <=> SingleFindsIp(ip)

\* the last operation was a lookup of at least one indicator on a store that
\* had been closed
LookupAfterClose ==
    /\ tiOp.before.conn = "closed"
    /\ tiOp.name \in {"check_domain_reputation", "check_ip_reputation",
                       "check_domains_batch", "check_reputation"}
    /\ (Listed(tiOp.domains) \cup Listed(tiOp.ips)) \ {""} # {}

\* C30: after close() no lookup returns a result: every lookup fails,
\* whether or not its key is in the cache
C30_NoResultAfterClose ==
    LookupAfterClose => tiOut.raised

\* after close() a lookup that has to query the store fails
Lemma_QueryAfterCloseRaises ==
    (/\ LookupAfterClose
     /\ \/ SingleLookup /\ LookupIndicator # "" /\ ~CacheHit
        \/ /\ tiOp.name \in {"check_domains_batch", "check_reputation"}
           /\ Listed(tiOp.domains) \ {""} # {})
        => tiOut.raised

(***************************************************************************)
(* Further properties of the aggregator: the caller's configuration.       *)
(***************************************************************************)
\* aggregate_and_decide has been called with a configuration object
CalledWithConfig == aggOut.outcome # "none" /\ aggIn.use_config

\* C26: aggregate_and_decide leaves the caller's configuration object as it
\* was before the call, so that another call with the same object and the
\* same inputs gives the same final_score and verdict
C26_ConfigUnchanged ==
    CalledWithConfig =>
        /\ callerCfg = aggOut.called_with
        /\ aggOut.outcome = "returned" =>
              LET again == AggregateResult(aggIn, callerCfg)
              IN  /\ again.final_score = aggOut.final_score
                  /\ again.final_verdict = aggOut.final_verdict

\* the object is left alone when no weights file is read
Lemma_ConfigUnchangedWithoutFile ==
    (CalledWithConfig /\ aggIn.file.kind # "object")
        => callerCfg = aggOut.called_with

(***************************************************************************)
(* Further properties of the rule engine: the two views of its result.     *)
(***************************************************************************)
\* the names a result uses, in triggered_rules or as a key of rule_details
RuleNames ==
    {ruleOut.triggered_rules[i].rule : i \in 1..Len(ruleOut.triggered_rules)}
    \cup DOMAIN ruleOut.rule_details

ListedAsTriggered(name) ==
    \E i \in 1..Len(ruleOut.triggered_rules) :
        ruleOut.triggered_rules[i].rule = name

TriggeredInDetails(name) ==
    /\ name \in DOMAIN ruleOut.rule_details
    /\ ruleOut.rule_details[name].triggered

\* C27: in every result of evaluate_all_rules a rule name is in
\* triggered_rules iff rule_details has an entry under that name with
\* triggered = true, and the listed weight is that entry's score
C27_TriggeredMatchesDetails ==
    RulesReturned =>
        /\ \A name \in RuleNames :
               ListedAsTriggered(name) <=> TriggeredInDetails(name)
        /\ \A i \in 1..Len(ruleOut.triggered_rules) :
               LET t == ruleOut.triggered_rules[i]
               IN  /\ t.rule \in DOMAIN ruleOut.rule_details
                   /\ t.weight = ruleOut.rule_details[t.rule].score

\* the two views agree on every rule but the attachment rule, which is
\* listed as dangerous_attachment and detailed as dangerous_attachments
Lemma_TriggeredMatchesDetailsButAttachment ==
    RulesReturned =>
        /\ \A name \in RuleNames \ {"dangerous_attachment",
                                      "dangerous_attachments"} :
               ListedAsTriggered(name) <=> TriggeredInDetails(name)
        /\ \A i \in 1..Len(ruleOut.triggered_rules) :
               LET t == ruleOut.triggered_rules[i]
               IN  IF t.rule = "dangerous_attachment"
                   THEN t.weight
                          = ruleOut.rule_details.dangerous_attachments.score
                   ELSE t.weight = ruleOut.rule_details[t.rule].score
        /\ ListedAsTriggered("dangerous_attachment")
              <=> TriggeredInDetails("dangerous_attachments")

(***************************************************************************)
(* Properties of extract_body.                                             *)
(***************************************************************************)
\* the contents of the text/plain and of the text/html parts of the message,
\* in message order
PlainContents == PartsOfKind(bodyIn.body, "text")
HtmlContents == PartsOfKind(bodyIn.body, "html")

Last(seq) == seq[Len(seq)]

\* C25: for a message with several text/plain (text/html) body parts the
\* text (html) returned is the content of the first such part in message
\* order; a later part of the same type never replaces it
C25_FirstPartWins ==
    bodyOut.done =>
        /\ PlainContents # <<>> /\ PlainContents[1] # ""
              => bodyOut.text = decode_text(PlainContents[1])
        /\ HtmlContents # <<>> /\ HtmlContents[1] # ""
              => bodyOut.html = decode_text(HtmlContents[1])

\* in the list format the last part of a type gives the text (html); in the
\* dict format the first one does
Lemma_LastPartWinsInList ==
    bodyOut.done =>
        /\ (bodyIn.format = "list" /\ PlainContents # <<>>
                /\ Last(PlainContents) # "")
              => bodyOut.text = decode_text(Last(PlainContents))
        /\ (bodyIn.format = "list" /\ HtmlContents # <<>>
                /\ Last(HtmlContents) # "")
              => bodyOut.html = decode_text(Last(HtmlContents))
        /\ (bodyIn.format = "dict" /\ PlainContents # <<>>
                /\ PlainContents[1] # "")
              => bodyOut.text = decode_text(PlainContents[1])
        /\ (bodyIn.format = "dict" /\ HtmlContents # <<>>
                /\ HtmlContents[1] # "")
              => bodyOut.html = decode_text(HtmlContents[1])

(***************************************************************************)
(* Properties of the ingestion.                                            *)
(***************************************************************************)
KeysIn(table) == {row.key : row \in table}

\* the rows that the executemany calls of the current ingestion wrote are in
\* the database file
FlushedCommitted ==
    \A row \in ingHist.flushed :
        row \in ingDisk.malicious_domains \cup ingDisk.malicious_ips

\* C23: both importers commit after every batch of BATCH_SIZE rows, so an
\* ingestion interrupted between batches leaves the rows of every batch
\* already written committed in the store, and the store is consistent: no
\* key occurs twice
C23_CommitPerBatch ==
    /\ KeysUnique(ingDisk.malicious_domains)
    /\ KeysUnique(ingDisk.malicious_ips)
    /\ ing.pc = "interrupted" => FlushedCommitted

\* an interrupted ingestion leaves the database file as it was when the
\* ingestion began, with no key twice; a completed one has committed all it
\* wrote
Lemma_InterruptedLeavesFileOrAll ==
    /\ KeysUnique(ingDisk.malicious_domains)
    /\ KeysUnique(ingDisk.malicious_ips)
    /\ ing.pc = "interrupted" =>
          \/ ingDisk = TablesOf(ingStore) /\ FlushedCommitted
          \/ ingHist.flushed \cap (ingDisk.malicious_domains
                                     \cup ingDisk.malicious_ips) = {}
    /\ ing.pc = "done" => ingDisk = TablesOf(ingStore) \/ ing.rest = <<>>

\* C29: an ingestion that raises before its commit has no effect: the
\* indicators that lookups on the store see and the cache are as they were
\* before the call, and no row of an ingestion that raised is committed by
\* a later one
C29_AbortHasNoEffect ==
    /\ ing.pc = "aborted" =>
          /\ TablesOf(ingStore) = TablesOf(ingHist.start)
          /\ ingStore.cache = ingHist.start.cache
    /\ \A row \in ingDisk.malicious_domains \cup ingDisk.malicious_ips :
          row.date_added \notin ingHist.aborted

\* an ingestion that raises leaves the cache and the database file as they
\* were
Lemma_AbortLeavesCacheAndFile ==
    ing.pc = "aborted" =>
        /\ ingStore.cache = ingHist.start.cache
        /\ \A row \in ingDisk.malicious_domains \cup ingDisk.malicious_ips :
              row.date_added # ing.date_added

\* the lookup thread and the ingestion have both finished, and no ingestion
\* on the store has raised
BothFinished ==
    /\ ing.pc = "done"
    /\ look.pc = "idle"
    /\ ingHist.lookups > 0
    /\ ingHist.aborted = {}

\* C22: lookups that run beside an ingestion on one store wait for it, no
\* lookup step falling between its inserts, commit and cache clear; so once
\* both have finished the cache holds no not-found entry for an indicator
\* the ingestion inserted and holds at most max_cache_size entries
C22_IngestionExclusive ==
    BothFinished =>
        /\ NoStaleNegative(ingStore)
        /\ Len(ingStore.cache) <= ingStore.max_cache_size

\* the cache is coherent when no lookup step fell into an ingestion
Lemma_CoherentWithoutInterleaving ==
    (BothFinished /\ ~ingHist.interleaved) =>
        /\ NoStaleNegative(ingStore)
        /\ Len(ingStore.cache) <= ingStore.max_cache_size
====
